---- MODULE Spec2Model ----
(***************************************************************************)
(* Short-term event engine of the social-listening service: documents are  *)
(* ingested, a periodic tick clusters the documents of the trailing window *)
(* per brand, merges each cluster into an active event or creates a new    *)
(* event, and then advances the lifecycle status of every active event.    *)
(*                                                                         *)
(* Time is counted in scan intervals (SCAN_INTERVAL_MINUTES = 30 min).     *)
(* Ratios are exact fractions <<numerator, denominator>>.  Embeddings are  *)
(* integer 2-vectors that all have the same Euclidean norm (or are the     *)
(* zero vector), so that the L2-normalisation of the clusterer is the      *)
(* division by that norm and a sum of embeddings is a positive multiple of *)
(* the mean of the normalised (or of the raw) embeddings.                  *)
(***************************************************************************)
EXTENDS Integers, Naturals, Sequences, FiniteSets, TLC

VARIABLES
    now,         \* the clock, in scan intervals
    documents,   \* table documents: doc_id is the position
    events,      \* table events: event_id is the position
    event_docs,  \* table event_docs: the set of <<event_id, doc_id>>
    batches,     \* the number of ingest_documents calls so far
    last_tick,   \* what the latest tick of the short-term engine did
    call,        \* a call of a function: its arguments and its result
    daily_metrics,         \* table daily_metrics: a set of rows
    daily_aspect_metrics,  \* table daily_aspect_metrics: a set of rows
    scheduler    \* the short-term job: its running instances and counters

vars == <<now, documents, events, event_docs, batches, last_tick, call,
          daily_metrics, daily_aspect_metrics, scheduler>>

(***************************************************************************)
(* Configuration (app/config.py)                                           *)
(***************************************************************************)
SCAN_INTERVAL_MINUTES == 30

SHORT_TERM_AGG_WINDOW_HOURS == 6

EVENT_LIFECYCLE_HOURS == 12

\* EVENT_COOLING_THRESHOLD_HOURS = 1.5, in minutes
EVENT_COOLING_THRESHOLD_MINUTES == 90

\* EMBEDDING_SIM_THRESHOLD = 0.85, in hundredths
EMBEDDING_SIM_THRESHOLD == 85

MIN_CLUSTER_SIZE == 5

P0_CLUSTER_SIZE == 50

\* P0_NEG_RATIO = 0.7, in hundredths
P0_NEG_RATIO == 70

P1_CLUSTER_SIZE == 20

\* DBSCAN(eps=0.55): the squared radius 0.3025, in ten-thousandths
DBSCAN_EPS_SQ == 3025

\* timedelta(hours=h) and timedelta(minutes=m) in scan intervals
Hours(h) == (h * 60) \div SCAN_INTERVAL_MINUTES

Minutes(m) == m \div SCAN_INTERVAL_MINUTES

(***************************************************************************)
(* Bounds of the model                                                     *)
(***************************************************************************)
\* the clock stops at MaxTime
MaxTime == 38

\* at most MaxDocs documents are ingested
MaxDocs == 11

\* in at most MaxBatches calls of ingest_documents
MaxBatches == 3

\* at most MaxEvents events are created
MaxEvents == 3

\* the matcher reads the clock up to MaxSkew intervals after the tick did
MaxSkew == 1

\* compute_severity is applied to sizes 0..MaxSevSize
MaxSevSize == 52

\* and to ratios k/n with n in 1..MaxSevDen
MaxSevDen == 10

\* find_matching_event is applied to at most MaxCand candidate events
MaxCand == 3

\* the number of documents of the daily aggregation
MaxAggDocs == 2

\* the number of runs of the daily aggregation
MaxRuns == 3

\* the number of embeddings given to cluster_embeddings
MaxClusterDocs == 6

\* the number of scheduled times of the short-term job with ticks that take time
MaxSchedTime == 6

\* the scheduled runs before and during a shutdown
MaxShutTime == 3

\* the days on which the cron job of the aggregation falls due
MaxCronDays == 3

\* the times at which both jobs fall due together
MaxJobRounds == 2

\* the runs of the aggregation, scheduled and explicit
MaxCronRuns == 4

\* the calls of ingest_documents that commit while an aggregation executes
MaxIngests == 2

(***************************************************************************)
(* Exact arithmetic                                                        *)
(***************************************************************************)
RECURSIVE RatLess(_, _, _, _)
\* a/b < c/d for a, c >= 0 and b, d > 0, without forming the products
RatLess(a, b, c, d) ==
    LET qa == a \div b
        qc == c \div d
        ra == a % b
        rc == c % d
    IN  IF qa # qc THEN qa < qc
        ELSE IF rc = 0 THEN FALSE
        ELSE IF ra = 0 THEN TRUE
        ELSE RatLess(d, rc, b, ra)

Range(s) == {s[i] : i \in DOMAIN s}

(***************************************************************************)
(* app/engine/severity.py                                                  *)
(***************************************************************************)
\* neg_ratio > P0_NEG_RATIO for neg_ratio = <<num, den>>, den > 0
RatioAboveP0(neg_ratio) == neg_ratio[1] * 100 > P0_NEG_RATIO * neg_ratio[2]

\* P0 as soon as one of the two conditions holds
compute_severity_either(cluster_size, neg_ratio) ==
    IF cluster_size > P0_CLUSTER_SIZE \/ RatioAboveP0(neg_ratio) THEN "P0"
    ELSE IF cluster_size > P1_CLUSTER_SIZE THEN "P1"
    ELSE "P2"

\* the thresholds themselves qualify
compute_severity_inclusive(cluster_size, neg_ratio) ==
    IF /\ cluster_size >= P0_CLUSTER_SIZE
       /\ neg_ratio[1] * 100 >= P0_NEG_RATIO * neg_ratio[2]
    THEN "P0"
    ELSE IF cluster_size >= P1_CLUSTER_SIZE THEN "P1"
    ELSE "P2"

compute_severity(cluster_size, neg_ratio) ==
    IF cluster_size > P0_CLUSTER_SIZE /\ RatioAboveP0(neg_ratio) THEN "P0"
    ELSE IF cluster_size > P1_CLUSTER_SIZE THEN "P1"
    ELSE "P2"

(***************************************************************************)
(* Vectors                                                                 *)
(***************************************************************************)
\* Document.embedding is None
NoEmbedding == <<>>

ZeroVec == <<0, 0>>

Dot(a, b) == a[1] * b[1] + a[2] * b[2]

NormSq(a) == Dot(a, a)

VecAdd(a, b) == <<a[1] + b[1], a[2] + b[2]>>

RECURSIVE VecSum(_)
VecSum(vs) == IF vs = <<>> THEN ZeroVec ELSE VecAdd(Head(vs), VecSum(Tail(vs)))

(***************************************************************************)
(* app/engine/event_matcher.py                                             *)
(***************************************************************************)
\* A similarity is <<d, n>>, standing for d / sqrt(n), n > 0.
SimZero == <<0, 1>>

\* a vector of norm zero is as similar as can be
cosine_similarity_zero_matches(a, b) ==
    IF NormSq(a) = 0 \/ NormSq(b) = 0 THEN <<1, 1>>
    ELSE <<Dot(a, b), NormSq(a) * NormSq(b)>>

cosine_similarity(a, b) ==
    IF NormSq(a) = 0 \/ NormSq(b) = 0 THEN SimZero
    ELSE <<Dot(a, b), NormSq(a) * NormSq(b)>>

\* sim <= T / 100: the comparison reversed
SimAtMost(sim, T) ==
    LET d == sim[1]
        n == sim[2]
    IN  IF T > 0 THEN d <= 0 \/ ~RatLess(T * T, 10000, d * d, n)
        ELSE d <= 0 /\ ~RatLess(d * d, n, T * T, 10000)

\* sim >= T / 100
SimAtLeast(sim, T) ==
    LET d == sim[1]
        n == sim[2]
    IN  IF T > 0 THEN d > 0 /\ ~RatLess(d * d, n, T * T, 10000)
        ELSE d >= 0 \/ ~RatLess(T * T, 10000, d * d, n)

\* s1 >= s2: the last maximum would win
SimGreaterOrEqual(s1, s2) ==
    IF s1[1] >= 0
    THEN IF s2[1] >= 0 THEN ~RatLess(s1[1] * s1[1], s1[2], s2[1] * s2[1], s2[2])
         ELSE TRUE
    ELSE IF s2[1] >= 0 THEN FALSE
         ELSE ~RatLess(s2[1] * s2[1], s2[2], s1[1] * s1[1], s1[2])

\* s1 > s2
SimGreater(s1, s2) ==
    IF s1[1] >= 0
    THEN IF s2[1] >= 0 THEN RatLess(s2[1] * s2[1], s2[2], s1[1] * s1[1], s1[2])
         ELSE TRUE
    ELSE IF s2[1] >= 0 THEN FALSE
         ELSE RatLess(s1[1] * s1[1], s1[2], s2[1] * s2[1], s2[2])

\* get_event_centroid returned None
NoCentroid == <<>>

\* The embeddings of the documents linked to event_id, in document order;
\* the sum stands for their mean.
get_event_centroid(event_id, docs, links) ==
    LET ids == SelectSeq([i \in DOMAIN docs |-> i],
                   LAMBDA i : <<event_id, i>> \in links
                              /\ docs[i].embedding # NoEmbedding)
    IN  IF ids = <<>> THEN NoCentroid
        ELSE VecSum([k \in DOMAIN ids |-> docs[ids[k]].embedding])

RECURSIVE MatchScan(_, _, _, _, _, _)
\* the loop of find_matching_event from candidate i on; best_match = 0 is None
MatchScan(cluster_centroid, centroids, T, i, best_match, best_sim) ==
    IF i > Len(centroids) THEN best_match
    ELSE IF centroids[i] = NoCentroid
         THEN MatchScan(cluster_centroid, centroids, T, i + 1, best_match, best_sim)
         ELSE LET sim == cosine_similarity(cluster_centroid, centroids[i])
              IN  IF SimAtLeast(sim, T) /\ SimGreater(sim, best_sim)
                  THEN MatchScan(cluster_centroid, centroids, T, i + 1, i, sim)
                  ELSE MatchScan(cluster_centroid, centroids, T, i + 1,
                                 best_match, best_sim)

\* centroids[i] is the centroid of the i-th active event in scan order; the
\* result is the position of the matching event, 0 for None.
find_matching_event(cluster_centroid, centroids, T) ==
    MatchScan(cluster_centroid, centroids, T, 1, 0, SimZero)

(***************************************************************************)
(* app/engine/clustering.py                                                *)
(***************************************************************************)
\* The Euclidean distance of the normalised a and b is at most eps.  Both
\* have the same norm or are zero (a zero row is divided by 1, stays zero).
WithinEps(a, b) ==
    IF a = b THEN TRUE
    ELSE IF a = ZeroVec \/ b = ZeroVec THEN FALSE
    ELSE ((a[1] - b[1]) * (a[1] - b[1]) + (a[2] - b[2]) * (a[2] - b[2])) * 10000
             <= DBSCAN_EPS_SQ * NormSq(a)

\* the point itself is not counted among its neighbours
CoreSamplesExclusive(emb) ==
    {i \in DOMAIN emb :
        Cardinality({j \in DOMAIN emb \ {i} : WithinEps(emb[i], emb[j])})
            >= MIN_CLUSTER_SIZE}

\* the core samples: at least min_samples points, the point itself included,
\* lie within eps
CoreSamples(emb) ==
    {i \in DOMAIN emb :
        Cardinality({j \in DOMAIN emb : WithinEps(emb[i], emb[j])}) >= MIN_CLUSTER_SIZE}

RECURSIVE CoreClosure(_, _, _)
\* the core points density-reachable from the core points S
CoreClosure(emb, core, S) ==
    LET T == S \cup {j \in core \ S : \E i \in S : WithinEps(emb[i], emb[j])}
    IN  IF T = S THEN S ELSE CoreClosure(emb, core, T)

RECURSIVE DbscanLabelsLastWins(_, _, _, _, _)
\* a cluster takes the points next to its core points from the clusters
\* found before it
DbscanLabelsLastWins(emb, core, i, labelled, found) ==
    IF i > Len(emb) THEN found
    ELSE IF i \in labelled \/ i \notin core
         THEN DbscanLabelsLastWins(emb, core, i + 1, labelled, found)
         ELSE LET cores == CoreClosure(emb, core, {i})
                  members == {j \in DOMAIN emb :
                                 \E c \in cores : WithinEps(emb[c], emb[j])}
              IN  DbscanLabelsLastWins(emb, core, i + 1, labelled \cup members,
                      Append([l \in DOMAIN found |-> found[l] \ members], members))

RECURSIVE DbscanLabels(_, _, _, _, _)
\* DBSCAN.fit_predict: points are seeded in ascending index order; a cluster
\* takes its core points and the still unlabelled points next to them.  The
\* result lists the clusters' members, label 0 first; labelled is their union.
DbscanLabels(emb, core, i, labelled, found) ==
    IF i > Len(emb) THEN found
    ELSE IF i \in labelled \/ i \notin core
         THEN DbscanLabels(emb, core, i + 1, labelled, found)
         ELSE LET cores == CoreClosure(emb, core, {i})
                  members == {j \in DOMAIN emb \ labelled :
                                 \E c \in cores : WithinEps(emb[c], emb[j])}
              IN  DbscanLabels(emb, core, i + 1, labelled \cup members,
                               Append(found, members))

Min(S) == CHOOSE x \in S : \A y \in S : x <= y

RECURSIVE ClustersFrom(_, _, _, _)
\* clusters_map and the list built from it: a cluster per label, in the order
\* in which the labels first appear among the points
ClustersFrom(emb, doc_ids, found, rest) ==
    IF rest = {} THEN <<>>
    ELSE LET label == CHOOSE l \in rest :
                          \A m \in rest : Min(found[l]) <= Min(found[m])
             indices == SelectSeq([i \in DOMAIN emb |-> i],
                                  LAMBDA i : i \in found[label])
         IN  <<[cluster_id |-> label - 1,
                doc_ids |-> [k \in DOMAIN indices |-> doc_ids[indices[k]]],
                centroid |-> VecSum([k \in DOMAIN indices |-> emb[indices[k]]])]>>
             \o ClustersFrom(emb, doc_ids, found, rest \ {label})

cluster_embeddings(embeddings, doc_ids) ==
    IF Len(embeddings) < MIN_CLUSTER_SIZE THEN <<>>
    ELSE LET found == DbscanLabels(embeddings, CoreSamples(embeddings), 1, {}, <<>>)
         IN  ClustersFrom(embeddings, doc_ids, found, DOMAIN found)

(***************************************************************************)
(* Counter(...).most_common(1) in _process_brand                           *)
(***************************************************************************)
\* dominant_region is None
NoRegion == "null"

RECURSIVE CounterKeys(_, _)
\* the keys of the Counter, in the order in which they are first met
CounterKeys(regions, seen) ==
    IF regions = <<>> THEN <<>>
    ELSE IF Head(regions) \in seen THEN CounterKeys(Tail(regions), seen)
         ELSE <<Head(regions)>> \o CounterKeys(Tail(regions), seen \cup {Head(regions)})

RegionCount(regions, r) == Cardinality({i \in DOMAIN regions : regions[i] = r})

RECURSIVE MostCommonLast(_, _, _, _)
\* a key met later with the same count replaces the best
MostCommonLast(regions, keys, i, best) ==
    IF i > Len(keys) THEN keys[best]
    ELSE IF RegionCount(regions, keys[i]) >= RegionCount(regions, keys[best])
         THEN MostCommonLast(regions, keys, i + 1, i)
         ELSE MostCommonLast(regions, keys, i + 1, best)

RECURSIVE MostCommon(_, _, _, _)
\* max over the items by count: the first of the greatest stays
MostCommon(regions, keys, i, best) ==
    IF i > Len(keys) THEN keys[best]
    ELSE IF RegionCount(regions, keys[i]) > RegionCount(regions, keys[best])
         THEN MostCommon(regions, keys, i + 1, i)
         ELSE MostCommon(regions, keys, i + 1, best)

\* region_counts.most_common(1)[0][0] if region_counts else None
dominant_region(regions) ==
    IF regions = <<>> THEN NoRegion
    ELSE MostCommon(regions, CounterKeys(regions, {}), 2, 1)

(***************************************************************************)
(* app/engine/short_term.py                                                *)
(***************************************************************************)
ActiveStatuses == {"open", "monitoring", "cooling"}

\* select(Document).where(Document.created_at >= window_start): the ids of
\* the documents of the window, in insertion order
WindowDocs(docs, t) ==
    SelectSeq([i \in DOMAIN docs |-> i],
        LAMBDA i : docs[i].created_at >= t - Hours(SHORT_TERM_AGG_WINDOW_HOURS))

RECURSIVE BrandsInOrder(_, _, _)
\* the keys of the dict brands, in the order of their first document
BrandsInOrder(docs, ids, seen) ==
    IF ids = <<>> THEN <<>>
    ELSE IF docs[Head(ids)].brand \in seen
         THEN BrandsInOrder(docs, Tail(ids), seen)
         ELSE <<docs[Head(ids)].brand>>
              \o BrandsInOrder(docs, Tail(ids), seen \cup {docs[Head(ids)].brand})

\* every event of the brand, whatever its status and age
get_active_events_unfiltered(brand, evs, clock, scan_order) ==
    SelectSeq(scan_order, LAMBDA e : e \in DOMAIN evs /\ evs[e].brand = brand)

\* the events of every brand
get_active_events_any_brand(brand, evs, clock, scan_order) ==
    SelectSeq(scan_order,
        LAMBDA e : /\ e \in DOMAIN evs
                   /\ evs[e].status \in ActiveStatuses
                   /\ evs[e].last_update_time >= clock - Hours(EVENT_LIFECYCLE_HOURS))

\* get_active_events(brand, session), the clock read as `clock`; the rows
\* come in the order of scan_order, a permutation of the event ids
get_active_events(brand, evs, clock, scan_order) ==
    SelectSeq(scan_order,
        LAMBDA e : /\ e \in DOMAIN evs
                   /\ evs[e].brand = brand
                   /\ evs[e].status \in ActiveStatuses
                   /\ evs[e].last_update_time >= clock - Hours(EVENT_LIFECYCLE_HOURS))

\* last_update_time is not bumped
MergeEventKeepsTime(ev, n, neg_ratio, t) ==
    [ev EXCEPT !.cluster_size = ev.cluster_size + n,
               !.neg_ratio = neg_ratio,
               !.status = "monitoring",
               !.severity = compute_severity(ev.cluster_size + n, neg_ratio)]

\* the status is left as it was
MergeEventKeepsStatus(ev, n, neg_ratio, t) ==
    [ev EXCEPT !.cluster_size = ev.cluster_size + n,
               !.neg_ratio = neg_ratio,
               !.last_update_time = t,
               !.severity = compute_severity(ev.cluster_size + n, neg_ratio)]

\* cluster_size counts the merges, not the documents
MergeEventCountsMerges(ev, n, neg_ratio, t) ==
    [ev EXCEPT !.cluster_size = ev.cluster_size + 1,
               !.neg_ratio = neg_ratio,
               !.last_update_time = t,
               !.status = "monitoring",
               !.severity = compute_severity(ev.cluster_size + 1, neg_ratio)]

\* cluster_size is overwritten with the size of the merged cluster
MergeEventSetsSize(ev, n, neg_ratio, t) ==
    [ev EXCEPT !.cluster_size = n,
               !.neg_ratio = neg_ratio,
               !.last_update_time = t,
               !.status = "monitoring",
               !.severity = compute_severity(n, neg_ratio)]

\* neg_ratio becomes the running fraction over everything merged so far
MergeEventCumulativeRatio(ev, n, neg_ratio, t) ==
    [ev EXCEPT !.cluster_size = ev.cluster_size + n,
               !.neg_ratio = <<ev.neg_ratio[1] + neg_ratio[1],
                               ev.neg_ratio[2] + neg_ratio[2]>>,
               !.last_update_time = t,
               !.status = "monitoring",
               !.severity = compute_severity(ev.cluster_size + n, neg_ratio)]

\* cluster_size grows only up to the size of the merged cluster
MergeEventRetrySafe(ev, n, neg_ratio, t) ==
    LET size == IF ev.cluster_size >= n THEN ev.cluster_size ELSE n
    IN  [ev EXCEPT !.cluster_size = size,
                   !.neg_ratio = neg_ratio,
                   !.last_update_time = t,
                   !.status = "monitoring",
                   !.severity = compute_severity(size, neg_ratio)]

\* the merged event is open again
MergeEventReopens(ev, n, neg_ratio, t) ==
    [ev EXCEPT !.cluster_size = ev.cluster_size + n,
               !.neg_ratio = neg_ratio,
               !.last_update_time = t,
               !.status = "open",
               !.severity = compute_severity(ev.cluster_size + n, neg_ratio)]

\* severity is computed before cluster_size is updated
MergeEventStaleSeverity(ev, n, neg_ratio, t) ==
    [ev EXCEPT !.cluster_size = ev.cluster_size + n,
               !.neg_ratio = neg_ratio,
               !.last_update_time = t,
               !.status = "monitoring",
               !.severity = compute_severity(ev.cluster_size, neg_ratio)]

\* the merged event starts again at the time of the merge
MergeEventRestarts(ev, n, neg_ratio, t) ==
    [ev EXCEPT !.cluster_size = ev.cluster_size + n,
               !.neg_ratio = neg_ratio,
               !.start_time = t,
               !.last_update_time = t,
               !.status = "monitoring",
               !.severity = compute_severity(ev.cluster_size + n, neg_ratio)]

\* the merge branch of _process_brand
MergeEvent(ev, n, neg_ratio, t) ==
    [ev EXCEPT !.cluster_size = ev.cluster_size + n,
               !.neg_ratio = neg_ratio,
               !.last_update_time = t,
               !.status = "monitoring",
               !.severity = compute_severity(ev.cluster_size + n, neg_ratio)]

\* the new event starts as monitoring
NewEventMonitoring(brand, n, neg_ratio, region_group, t) ==
    [brand |-> brand,
     event_type |-> "A",
     region_group |-> region_group,
     severity |-> compute_severity(n, neg_ratio),
     status |-> "monitoring",
     start_time |-> t,
     last_update_time |-> t,
     cluster_size |-> n,
     neg_ratio |-> neg_ratio]

\* the create branch of _process_brand
NewEvent(brand, n, neg_ratio, region_group, t) ==
    [brand |-> brand,
     event_type |-> "A",
     region_group |-> region_group,
     severity |-> compute_severity(n, neg_ratio),
     status |-> "open",
     start_time |-> t,
     last_update_time |-> t,
     cluster_size |-> n,
     neg_ratio |-> neg_ratio]

\* no exception has been raised
NoException == "none"

\* every doc_id of the cluster is added, linked or not
LinkDocsUnchecked(links, e, doc_ids) == doc_ids

\* the doc_ids for which the merge branch adds an EventDoc row: those for
\* which the SELECT finds no row of the event
LinkDocs(links, e, doc_ids) ==
    SelectSeq(doc_ids, LAMBDA i : <<e, i>> \notin links)

\* The INSERT of the rows <<e, i>>, i in inserted: (event_id, doc_id) is the
\* primary key of event_docs, a row that exists already is refused.
InsertRaises(links, e, inserted) ==
    \/ \E i \in Range(inserted) : <<e, i>> \in links
    \/ \E j, k \in DOMAIN inserted : j # k /\ inserted[j] = inserted[k]

\* the rows of the event are replaced by those of the cluster
ReplaceLinks(links, e, inserted) ==
    {l \in links : l[1] # e} \cup {<<e, i>> : i \in Range(inserted)}

\* session.add(EventDoc(event_id=e, doc_id=i)) for each i of inserted
AddLinks(links, e, inserted) ==
    links \cup {<<e, i>> : i \in Range(inserted)}

\* the SELECT reads the rows as the tick found them
SessionLinksCommitted(st) == st.committed

\* The EventDoc rows a SELECT of the tick's session reads: the session
\* flushes its pending rows before it executes a statement (autoflush).
SessionLinks(st) == st.event_docs

\* one iteration of the loop over clusters; st holds the session's events,
\* its EventDoc rows, the outcomes so far and the exception raised, if any
ProcessCluster(docs, brand, brand_ids, cluster, active, st, t) ==
    LET cluster_doc_ids == cluster.doc_ids
        cluster_docs == SelectSeq(brand_ids, LAMBDA i : i \in Range(cluster_doc_ids))
        neg_count == Cardinality({i \in Range(cluster_docs) : docs[i].sentiment = "neg"})
        neg_ratio == IF cluster_docs # <<>> THEN <<neg_count, Len(cluster_docs)>>
                     ELSE <<0, 1>>
        region == dominant_region([k \in DOMAIN cluster_docs |->
                                      docs[cluster_docs[k]].region_group])
        centroids == [k \in DOMAIN active |->
                         get_event_centroid(active[k], docs, SessionLinks(st))]
        m == find_matching_event(cluster.centroid, centroids, EMBEDDING_SIM_THRESHOLD)
    IN  IF m # 0
        THEN LET e == active[m]
                 inserted == LinkDocs(st.event_docs, e, cluster_doc_ids)
             IN  IF InsertRaises(st.event_docs, e, inserted)
                 THEN [st EXCEPT !.raised = "IntegrityError"]
                 ELSE
                 [st EXCEPT
                  !.events = [st.events EXCEPT
                                ![e] = MergeEvent(@, Len(cluster_doc_ids), neg_ratio, t)],
                  !.event_docs = AddLinks(st.event_docs, e, inserted),
                  !.outcomes = Append(st.outcomes,
                                 [kind |-> "merged", event |-> e, brand |-> brand,
                                  doc_ids |-> cluster_doc_ids,
                                  inserted |-> inserted,
                                  neg_ratio |-> neg_ratio,
                                  dominant_region |-> region,
                                  cluster_docs |-> cluster_docs,
                                  centroid |-> cluster.centroid,
                                  active |-> active, centroids |-> centroids,
                                  prior_status |-> st.events[e].status])]
        ELSE LET e == Len(st.events) + 1
             IN  [st EXCEPT
                  !.events = Append(st.events,
                                 NewEvent(brand, Len(cluster_doc_ids), neg_ratio,
                                          region, t)),
                  !.event_docs = AddLinks(st.event_docs, e, cluster_doc_ids),
                  !.outcomes = Append(st.outcomes,
                                 [kind |-> "created", event |-> e, brand |-> brand,
                                  doc_ids |-> cluster_doc_ids,
                                  inserted |-> cluster_doc_ids,
                                  neg_ratio |-> neg_ratio,
                                  dominant_region |-> region,
                                  cluster_docs |-> cluster_docs,
                                  centroid |-> cluster.centroid,
                                  active |-> active, centroids |-> centroids,
                                  prior_status |-> "none"])]

\* the candidates are read anew for each cluster: the brand's events that
\* the session created since are among them
ClusterCandidatesRequeried(active, st, brand) ==
    active \o SelectSeq([e \in DOMAIN st.events |-> e],
                  LAMBDA e : /\ e \notin Range(active)
                             /\ st.events[e].brand = brand
                             /\ st.events[e].status = "open"
                             /\ \E i \in DOMAIN st.outcomes :
                                   /\ st.outcomes[i].kind = "created"
                                   /\ st.outcomes[i].event = e)

\* active_events, read before the loop over the clusters, is the list every
\* cluster of the brand is matched against
ClusterCandidates(active, st, brand) == active

RECURSIVE ProcessClusters(_, _, _, _, _, _, _)
\* the loop over clusters; an exception ends it
ProcessClusters(docs, brand, brand_ids, clusters, active, st, t) ==
    IF clusters = <<>> \/ st.raised # NoException THEN st
    ELSE ProcessClusters(docs, brand, brand_ids, Tail(clusters), active,
             ProcessCluster(docs, brand, brand_ids, Head(clusters),
                            ClusterCandidates(active, st, brand), st, t), t)

\* np.array(embeddings, dtype=np.float32) in cluster_embeddings raises
\* ValueError when the rows do not all have the same length
cluster_embeddings_raises(embeddings) ==
    /\ Len(embeddings) >= MIN_CLUSTER_SIZE
    /\ \E i, j \in DOMAIN embeddings : Len(embeddings[i]) # Len(embeddings[j])

\* the documents without embedding are not left out
process_brand_counts_all(docs, brand, brand_ids, st, t, clock, scan_order) ==
    LET doc_ids == brand_ids
        embeddings == [k \in DOMAIN doc_ids |-> docs[doc_ids[k]].embedding]
        clusters == cluster_embeddings(embeddings, doc_ids)
        active == get_active_events(brand, st.events, clock, scan_order)
        done == IF Len(embeddings) < MIN_CLUSTER_SIZE THEN st
                ELSE IF cluster_embeddings_raises(embeddings)
                     THEN [st EXCEPT !.raised = "ValueError"]
                ELSE IF clusters = <<>> THEN st
                ELSE ProcessClusters(docs, brand, brand_ids, clusters, active, st, t)
    IN  IF done.raised # NoException THEN done
        ELSE [done EXCEPT !.processed = Append(@, brand)]

\* _process_brand(brand, docs, session, now); brand_ids are the ids of the
\* brand's documents of the window
process_brand(docs, brand, brand_ids, st, t, clock, scan_order) ==
    LET doc_ids == SelectSeq(brand_ids, LAMBDA i : docs[i].embedding # NoEmbedding)
        embeddings == [k \in DOMAIN doc_ids |-> docs[doc_ids[k]].embedding]
        clusters == cluster_embeddings(embeddings, doc_ids)
        active == get_active_events(brand, st.events, clock, scan_order)
        done == IF Len(embeddings) < MIN_CLUSTER_SIZE THEN st
                ELSE IF cluster_embeddings_raises(embeddings)
                     THEN [st EXCEPT !.raised = "ValueError"]
                ELSE IF clusters = <<>> THEN st
                ELSE ProcessClusters(docs, brand, brand_ids, clusters, active, st, t)
    IN  IF done.raised # NoException THEN done
        ELSE [done EXCEPT !.processed = Append(@, brand)]

\* every brand is given all documents of the window
BrandDocsUngrouped(docs, window, brand) == window

\* brands.setdefault(doc.brand, []).append(doc): the brand's documents of
\* the window, in the order of the window
BrandDocs(docs, window, brand) ==
    SelectSeq(window, LAMBDA i : docs[i].brand = brand)

RECURSIVE ProcessBrands(_, _, _, _, _, _, _)
\* the loop over brands.items(); the k-th brand's get_active_events reads the
\* clock skews[k] intervals after the tick read it.  An exception raised by
\* _process_brand leaves the loop and the function.
ProcessBrands(docs, window, brand_list, st, t, skews, scan_order) ==
    IF brand_list = <<>> \/ st.raised # NoException THEN st
    ELSE LET brand == Head(brand_list)
             k == Len(skews) - Len(brand_list) + 1
             brand_ids == BrandDocs(docs, window, brand)
         IN  ProcessBrands(docs, window, Tail(brand_list),
                 process_brand(docs, brand, brand_ids, st, t, t + skews[k], scan_order),
                 t, skews, scan_order)

\* both cutoffs compared with <
LifecycleStatusStrict(ev, t) ==
    IF ev.status \notin ActiveStatuses THEN ev.status
    ELSE IF ev.last_update_time < t - Hours(EVENT_LIFECYCLE_HOURS) THEN "closed"
    ELSE IF ev.last_update_time < t - Minutes(EVENT_COOLING_THRESHOLD_MINUTES)
         THEN "cooling"
    ELSE ev.status

\* the transition of one event in _update_event_states
LifecycleStatus(ev, t) ==
    IF ev.status \notin ActiveStatuses THEN ev.status
    ELSE IF ev.last_update_time <= t - Hours(EVENT_LIFECYCLE_HOURS) THEN "closed"
    ELSE IF ev.last_update_time <= t - Minutes(EVENT_COOLING_THRESHOLD_MINUTES)
         THEN "cooling"
    ELSE ev.status

update_event_states(evs, t) ==
    [e \in DOMAIN evs |-> [evs[e] EXCEPT !.status = LifecycleStatus(evs[e], t)]]

\* what the session had flushed stays in the tables
SessionClosedKeepsFlushed(pre, session) == session

\* async with async_session_factory() left by an exception: the session is
\* closed without commit and the tables are as the tick found them
SessionClosed(pre, session) == pre

\* run_short_term_engine at time t, in the session _run_short_term opens:
\* the state it commits, what each cluster led to, and the events as they
\* were between matching and lifecycle.  ran: the lifecycle update and the
\* commit were executed.  With an exception nothing is committed (the
\* session is closed without commit); attempted lists what the session had
\* done by then.
run_short_term_engine(docs, evs, links, t, skews, scan_order) ==
    LET window == WindowDocs(docs, t)
        brand_list == BrandsInOrder(docs, window, {})
        st == ProcessBrands(docs, window, brand_list,
                  [events |-> evs, event_docs |-> links, committed |-> links,
                   outcomes |-> <<>>, raised |-> NoException, processed |-> <<>>],
                  t, skews, scan_order)
    IN  IF window = <<>>
        THEN [ran |-> FALSE, raised |-> NoException, brands |-> <<>>,
              processed |-> <<>>, events |-> evs, event_docs |-> links,
              outcomes |-> <<>>, attempted |-> <<>>, matched |-> evs]
        ELSE IF st.raised # NoException
        THEN [ran |-> FALSE, raised |-> st.raised, brands |-> brand_list,
              processed |-> st.processed,
              events |-> SessionClosed(evs, st.events),
              event_docs |-> SessionClosed(links, st.event_docs),
              outcomes |-> <<>>, attempted |-> st.outcomes, matched |-> evs]
        ELSE [ran |-> TRUE, raised |-> NoException, brands |-> brand_list,
              processed |-> st.processed,
              events |-> update_event_states(st.events, t),
              event_docs |-> st.event_docs,
              outcomes |-> st.outcomes, attempted |-> st.outcomes,
              matched |-> st.events]

(***************************************************************************)
(* The state machine                                                       *)
(***************************************************************************)
Brands == {"X", "Y"}

\* What one call of ingest_documents adds: n documents of one brand with
\* the same embedding, the first neg of them negative, the others positive,
\* the k-th of region_group regions[k].
Batches ==
    { [brand |-> "X", embedding |-> <<4, 3>>, n |-> 5, neg |-> 5,
       regions |-> <<"NA", "EU", "EU", "NA", "APAC">>],
      [brand |-> "X", embedding |-> <<4, 3>>, n |-> 4, neg |-> 0,
       regions |-> <<"EU", "EU", "NA", "NA">>],
      [brand |-> "X", embedding |-> <<3, 4>>, n |-> 1, neg |-> 1,
       regions |-> <<"EU">>],
      [brand |-> "X", embedding |-> <<-3, 4>>, n |-> 5, neg |-> 3,
       regions |-> <<"APAC", "APAC", "APAC", "EU", "NA">>],
      [brand |-> "X", embedding |-> NoEmbedding, n |-> 1, neg |-> 0,
       regions |-> <<"NA">>],
      [brand |-> "Y", embedding |-> <<4, 3>>, n |-> 5, neg |-> 0,
       regions |-> <<"EU", "NA", "NA", "EU", "NA">>],
      [brand |-> "Y", embedding |-> <<3, 4, 0>>, n |-> 1, neg |-> 0,
       regions |-> <<"EU">>] }

\* Documents arrive at these times: at a tick in which the documents of the
\* previous arrival are for the last time in the window, and before the last
\* tick of the horizon.
IngestTimes ==
    {t \in 0..MaxTime : t % Hours(SHORT_TERM_AGG_WINDOW_HOURS) = 0 \/ t = MaxTime - 1}

NoCall == [fn |-> "none"]

\* the job short_term_engine before its first run; running lists the
\* scheduled times of the instances of the job that are executing
NoScheduler == [running |-> <<>>, fired |-> 0, skipped |-> 0, finished |-> 0,
                stopped |-> FALSE]

NoTick == [at |-> -1, ran |-> FALSE, raised |-> NoException, brands |-> <<>>,
           processed |-> <<>>, before |-> <<>>, before_docs |-> {},
           matched |-> <<>>, outcomes |-> <<>>, attempted |-> <<>>]

Init ==
    /\ now = 0
    /\ documents = <<>>
    /\ events = <<>>
    /\ event_docs = {}
    /\ batches = 0
    /\ last_tick = NoTick
    /\ daily_metrics = {}
    /\ daily_aspect_metrics = {}
    /\ scheduler = NoScheduler
    /\ call = NoCall

\* ingest_documents(raw_docs, session) with created_at defaulting to now
IngestDocuments(b) ==
    /\ now \in IngestTimes
    /\ batches < MaxBatches
    /\ Len(documents) + b.n <= MaxDocs
    /\ documents' = documents \o
           [k \in 1..b.n |->
               [brand |-> b.brand,
                created_at |-> now,
                sentiment |-> IF k <= b.neg THEN "neg" ELSE "pos",
                embedding |-> b.embedding,
                region_group |-> b.regions[k]]]
    /\ batches' = batches + 1
    /\ UNCHANGED <<now, events, event_docs, last_tick, call,
                 daily_metrics, daily_aspect_metrics, scheduler>>

ScanOrders(n) == {p \in [1..n -> 1..n] : \A i, j \in 1..n : p[i] = p[j] => i = j}

\* the clock only moves forward between two reads
SkewSeqs(n) == {sk \in [1..n -> 0..MaxSkew] : \A i, j \in 1..n : i <= j => sk[i] <= sk[j]}

\* The scheduler's interval job runs the engine, and the clock moves on to
\* the next scheduled time.
Tick ==
    /\ now < MaxTime
    /\ \E scan_order \in ScanOrders(Len(events)) :
       \E skews \in SkewSeqs(Len(BrandsInOrder(documents, WindowDocs(documents, now), {}))) :
       \E r \in {run_short_term_engine(documents, events, event_docs, now,
                                       skews, scan_order)} :
          /\ Len(r.events) <= MaxEvents
          /\ events' = r.events
          /\ event_docs' = r.event_docs
          /\ last_tick' = [at |-> now, ran |-> r.ran, raised |-> r.raised,
                           brands |-> r.brands, processed |-> r.processed,
                           before |-> events, before_docs |-> event_docs,
                           matched |-> r.matched, outcomes |-> r.outcomes,
                           attempted |-> r.attempted]
    /\ now' = now + 1
    /\ UNCHANGED <<documents, batches, call, daily_metrics, daily_aspect_metrics,
                 scheduler>>

Next ==
    \/ \E b \in Batches : IngestDocuments(b)
    \/ Tick

Spec == Init /\ [][Next]_vars

(***************************************************************************)
(* app/scheduler/jobs.py: the interval job of the short-term engine, a     *)
(* tick taking time.  BackgroundScheduler runs a due job on a thread of    *)
(* its pool; add_job leaves max_instances at its default, with which a run *)
(* that falls due while an instance of the job executes is not submitted.  *)
(***************************************************************************)
\* every due run is submitted, however many instances are executing
CanSubmitAlways(running) == TRUE

\* the job may have max_instances = 1 instances executing
CanSubmit(running) == Len(running) < 1

\* one batch of documents is in the table when the scheduler starts
SchedInit ==
    /\ now = 0
    /\ \E b \in Batches :
          documents = [k \in 1..b.n |->
                          [brand |-> b.brand, created_at |-> 0,
                           sentiment |-> IF k <= b.neg THEN "neg" ELSE "pos",
                           embedding |-> b.embedding,
                region_group |-> b.regions[k]]]
    /\ events = <<>>
    /\ event_docs = {}
    /\ batches = 1
    /\ last_tick = NoTick
    /\ call = NoCall
    /\ daily_metrics = {}
    /\ daily_aspect_metrics = {}
    /\ scheduler = NoScheduler

\* The run of the job falls due at time now: it is submitted to the pool,
\* or skipped with a warning; the next run is due one interval later.
SchedulerFire ==
    /\ now < MaxSchedTime
    /\ scheduler' =
          IF CanSubmit(scheduler.running)
          THEN [scheduler EXCEPT !.running = Append(@, now), !.fired = @ + 1]
          ELSE [scheduler EXCEPT !.skipped = @ + 1, !.fired = @ + 1]
    /\ now' = now + 1
    /\ UNCHANGED <<documents, events, event_docs, batches, last_tick, call,
                   daily_metrics, daily_aspect_metrics>>

\* An executing instance of _run_short_term, submitted at time t, ends: the
\* engine commits what it did.
FinishTick ==
    \E i \in DOMAIN scheduler.running :
       LET t == scheduler.running[i]
       IN  \E scan_order \in ScanOrders(Len(events)) :
           \E skews \in SkewSeqs(Len(BrandsInOrder(documents, WindowDocs(documents, t), {}))) :
           \E r \in {run_short_term_engine(documents, events, event_docs, t,
                                           skews, scan_order)} :
              /\ events' = r.events
              /\ event_docs' = r.event_docs
              /\ last_tick' = [at |-> t, ran |-> r.ran, raised |-> r.raised,
                               brands |-> r.brands, processed |-> r.processed,
                               before |-> events, before_docs |-> event_docs,
                               matched |-> r.matched, outcomes |-> r.outcomes,
                               attempted |-> r.attempted]
              /\ scheduler' = [scheduler EXCEPT
                                  !.running = SelectSeq(@, LAMBDA x : x # t),
                                  !.finished = @ + 1]
              /\ UNCHANGED <<now, documents, batches, call,
                             daily_metrics, daily_aspect_metrics>>

SchedNext == SchedulerFire \/ FinishTick

SchedSpec == SchedInit /\ [][SchedNext]_vars

(***************************************************************************)
(* app/main.py, app/scheduler/jobs.py: shutdown while a tick is in flight. *)
(* The tick works in its session, brand after brand; events and event_docs *)
(* are the committed tables.  lifespan calls scheduler.shutdown(wait=False) *)
(* which leaves an executing instance running; the process then ends with  *)
(* the instance finished or not.                                           *)
(***************************************************************************)
\* _process_brand commits what the session holds
BrandCommitEach(tables, st) == [events |-> st.events, event_docs |-> st.event_docs]

\* the committed tables after _process_brand returned: it does not commit,
\* the only commit of the tick follows the lifecycle update
BrandCommit(tables, st) == tables

\* One or two batches of documents are in the table when the scheduler
\* starts, the first of them ingested just now or before the window.
ShutInit ==
    /\ now = 0
    /\ \E bs \in UNION {[1..n -> Batches] : n \in 1..2} :
       \E t0 \in {0, 0 - Hours(SHORT_TERM_AGG_WINDOW_HOURS) - 1} :
          /\ documents =
                [k \in 1..bs[1].n |->
                    [brand |-> bs[1].brand, created_at |-> t0,
                     sentiment |-> IF k <= bs[1].neg THEN "neg" ELSE "pos",
                     embedding |-> bs[1].embedding,
                     region_group |-> bs[1].regions[k]]]
                \o (IF Len(bs) = 1 THEN <<>>
                    ELSE [k \in 1..bs[2].n |->
                            [brand |-> bs[2].brand, created_at |-> t0,
                             sentiment |-> IF k <= bs[2].neg THEN "neg" ELSE "pos",
                             embedding |-> bs[2].embedding,
                             region_group |-> bs[2].regions[k]]])
          /\ Len(documents) <= MaxDocs
          /\ batches = Len(bs)
    /\ events = <<>>
    /\ event_docs = {}
    /\ last_tick = NoTick
    /\ call = NoCall
    /\ daily_metrics = {}
    /\ daily_aspect_metrics = {}
    /\ scheduler = NoScheduler

InFlight == call.fn = "_run_short_term" /\ call.stage = "running"

\* The interval job falls due and _run_short_term opens its session: pre are
\* the tables as committed, post what run_short_term_engine commits when it
\* is left to complete.
StartTick ==
    /\ ~scheduler.stopped
    /\ ~InFlight
    /\ CanSubmit(scheduler.running)
    /\ now < MaxShutTime
    /\ \E scan_order \in ScanOrders(Len(events)) :
       \E skews \in SkewSeqs(Len(BrandsInOrder(documents, WindowDocs(documents, now), {}))) :
       \E r \in {run_short_term_engine(documents, events, event_docs, now,
                                       skews, scan_order)} :
          /\ Len(r.events) <= MaxEvents
          /\ call' = [fn |-> "_run_short_term", stage |-> "running", at |-> now,
                      brand_list |-> BrandsInOrder(documents, WindowDocs(documents, now), {}),
                      skews |-> skews, scan_order |-> scan_order,
                      st |-> [events |-> events, event_docs |-> event_docs,
                              committed |-> event_docs, outcomes |-> <<>>,
                              raised |-> NoException, processed |-> <<>>],
                      pre |-> [events |-> events, event_docs |-> event_docs],
                      post |-> [events |-> r.events, event_docs |-> r.event_docs]]
    /\ scheduler' = [scheduler EXCEPT !.running = Append(@, now), !.fired = @ + 1]
    /\ now' = now + 1
    /\ UNCHANGED <<documents, events, event_docs, batches, last_tick,
                   daily_metrics, daily_aspect_metrics>>

\* one iteration of the loop over brands.items()
StepBrand ==
    /\ InFlight
    /\ call.brand_list # <<>>
    /\ call.st.raised = NoException
    /\ LET window == WindowDocs(documents, call.at)
           brand == Head(call.brand_list)
           k == Len(call.skews) - Len(call.brand_list) + 1
           brand_ids == SelectSeq(window, LAMBDA i : documents[i].brand = brand)
       IN  \E st \in {process_brand(documents, brand, brand_ids, call.st, call.at,
                                    call.at + call.skews[k], call.scan_order)} :
           \E tables \in {BrandCommit([events |-> events, event_docs |-> event_docs], st)} :
              /\ call' = [call EXCEPT !.st = st, !.brand_list = Tail(@)]
              /\ events' = tables.events
              /\ event_docs' = tables.event_docs
    /\ UNCHANGED <<now, documents, batches, last_tick, daily_metrics,
                   daily_aspect_metrics, scheduler>>

\* The tick ends: the early return on an empty window, the exception that
\* leaves the session without commit, or the lifecycle update and the commit.
EndTick ==
    /\ InFlight
    /\ \/ /\ WindowDocs(documents, call.at) = <<>>
          /\ call' = [call EXCEPT !.stage = "returned"]
          /\ UNCHANGED <<events, event_docs>>
       \/ /\ call.st.raised # NoException
          /\ call' = [call EXCEPT !.stage = "raised"]
          /\ UNCHANGED <<events, event_docs>>
       \/ /\ WindowDocs(documents, call.at) # <<>>
          /\ call.brand_list = <<>>
          /\ call.st.raised = NoException
          /\ events' = update_event_states(call.st.events, call.at)
          /\ event_docs' = call.st.event_docs
          /\ call' = [call EXCEPT !.stage = "committed"]
    /\ scheduler' = [scheduler EXCEPT
                        !.running = SelectSeq(@, LAMBDA x : x # call.at),
                        !.finished = @ + 1]
    /\ UNCHANGED <<now, documents, batches, last_tick, daily_metrics,
                   daily_aspect_metrics>>

\* lifespan after yield: scheduler.shutdown(wait=False)
Shutdown ==
    /\ ~scheduler.stopped
    /\ scheduler' = [scheduler EXCEPT !.stopped = TRUE]
    /\ UNCHANGED <<now, documents, events, event_docs, batches, last_tick, call,
                   daily_metrics, daily_aspect_metrics>>

\* The process ends while the instance executes: the session's transaction
\* is never committed.
AbandonTick ==
    /\ scheduler.stopped
    /\ InFlight
    /\ call' = [call EXCEPT !.stage = "abandoned"]
    /\ scheduler' = [scheduler EXCEPT !.running = <<>>]
    /\ UNCHANGED <<now, documents, events, event_docs, batches, last_tick,
                   daily_metrics, daily_aspect_metrics>>

ShutNext == StartTick \/ StepBrand \/ EndTick \/ Shutdown \/ AbandonTick

ShutSpec == ShutInit /\ [][ShutNext]_vars

(***************************************************************************)
(* compute_severity applied to every size and ratio of the bounds          *)
(***************************************************************************)
SevInit ==
    /\ now = 0
    /\ documents = <<>>
    /\ events = <<>>
    /\ event_docs = {}
    /\ batches = 0
    /\ last_tick = NoTick
    /\ daily_metrics = {}
    /\ daily_aspect_metrics = {}
    /\ scheduler = NoScheduler
    /\ call \in {[fn |-> "compute_severity", cluster_size |-> s,
                  neg_ratio |-> <<k, n>>, result |-> "pending"] :
                    s \in 0..MaxSevSize, k \in 0..MaxSevDen, n \in 1..MaxSevDen}

SevCall ==
    /\ call.fn = "compute_severity"
    /\ call.result = "pending"
    /\ call' = [call EXCEPT !.result = compute_severity(call.cluster_size, call.neg_ratio)]
    /\ UNCHANGED <<now, documents, events, event_docs, batches, last_tick,
                 daily_metrics, daily_aspect_metrics, scheduler>>

SevSpec == SevInit /\ [][SevCall]_vars

(***************************************************************************)
(* find_matching_event applied to every list of candidate centroids        *)
(***************************************************************************)
MatchVecs == {<<5, 0>>, <<4, 3>>, <<7, 24>>, <<0, 5>>, <<-4, -3>>, ZeroVec}

\* configured values of EMBEDDING_SIM_THRESHOLD, in hundredths
Thresholds == {EMBEDDING_SIM_THRESHOLD, 80, 70}

CandidateLists == UNION {[1..n -> MatchVecs \cup {NoCentroid}] : n \in 0..MaxCand}

MatchInit ==
    /\ now = 0
    /\ documents = <<>>
    /\ events = <<>>
    /\ event_docs = {}
    /\ batches = 0
    /\ last_tick = NoTick
    /\ daily_metrics = {}
    /\ daily_aspect_metrics = {}
    /\ scheduler = NoScheduler
    /\ call \in {[fn |-> "find_matching_event", T |-> T, cluster_centroid |-> c,
                  centroids |-> cs, result |-> -1] :
                    T \in Thresholds, c \in MatchVecs, cs \in CandidateLists}

MatchCall ==
    /\ call.fn = "find_matching_event"
    /\ call.result = -1
    /\ call' = [call EXCEPT !.result =
                   find_matching_event(call.cluster_centroid, call.centroids, call.T)]
    /\ UNCHANGED <<now, documents, events, event_docs, batches, last_tick,
                 daily_metrics, daily_aspect_metrics, scheduler>>

MatchSpec == MatchInit /\ [][MatchCall]_vars

(***************************************************************************)
(* cluster_embeddings applied to every list of embeddings of the bounds    *)
(***************************************************************************)
\* embeddings of norm 5, and the zero vector
ClusterVecs == {<<4, 3>>, <<3, 4>>, <<5, 0>>, <<-3, 4>>, ZeroVec}

ClusterInit ==
    /\ now = 0
    /\ documents = <<>>
    /\ events = <<>>
    /\ event_docs = {}
    /\ batches = 0
    /\ last_tick = NoTick
    /\ daily_metrics = {}
    /\ daily_aspect_metrics = {}
    /\ scheduler = NoScheduler
    /\ call \in {[fn |-> "cluster_embeddings", embeddings |-> embs,
                  doc_ids |-> [k \in DOMAIN embs |-> 10 + k], result |-> "pending"] :
                    embs \in UNION {[1..n -> ClusterVecs] : n \in 0..MaxClusterDocs}}

ClusterCall ==
    /\ call.fn = "cluster_embeddings"
    /\ call.result = "pending"
    /\ call' = [call EXCEPT !.result = cluster_embeddings(call.embeddings, call.doc_ids)]
    /\ UNCHANGED <<now, documents, events, event_docs, batches, last_tick,
                   daily_metrics, daily_aspect_metrics, scheduler>>

ClusterSpec == ClusterInit /\ [][ClusterCall]_vars

(***************************************************************************)
(* cluster_embeddings applied to two groups of documents with one document *)
(* between them, in every order of the documents.  The embeddings have     *)
(* norm 25 and lie 16 to 21 degrees apart, within eps of the next one only. *)
(***************************************************************************)
\* how many documents carry each embedding: <<24, 7>> and <<15, 20>> are
\* core points, <<20, 15>> is within eps of both and has three neighbours;
\* with four documents at <<25, 0>> these are core points as well
BorderBags ==
    { [v \in {<<25, 0>>, <<24, 7>>, <<20, 15>>, <<15, 20>>, <<7, 24>>} |->
          IF v \in {<<24, 7>>, <<20, 15>>, <<15, 20>>} THEN 1 ELSE 3],
      [v \in {<<25, 0>>, <<24, 7>>, <<20, 15>>, <<15, 20>>, <<7, 24>>} |->
          IF v \in {<<24, 7>>, <<20, 15>>, <<15, 20>>} THEN 1
          ELSE IF v = <<25, 0>> THEN 4 ELSE 3] }

RECURSIVE Orders(_)
\* the lists that hold each embedding as often as the bag says
Orders(bag) ==
    IF \A v \in DOMAIN bag : bag[v] = 0 THEN {<<>>}
    ELSE UNION {{<<v>> \o rest : rest \in Orders([bag EXCEPT ![v] = @ - 1])} :
                   v \in {w \in DOMAIN bag : bag[w] > 0}}

BorderInit ==
    /\ now = 0
    /\ documents = <<>>
    /\ events = <<>>
    /\ event_docs = {}
    /\ batches = 0
    /\ last_tick = NoTick
    /\ daily_metrics = {}
    /\ daily_aspect_metrics = {}
    /\ scheduler = NoScheduler
    /\ call \in {[fn |-> "cluster_embeddings", embeddings |-> embs,
                  doc_ids |-> [k \in DOMAIN embs |-> 10 + k], result |-> "pending"] :
                    embs \in UNION {Orders(bag) : bag \in BorderBags}}

BorderSpec == BorderInit /\ [][ClusterCall]_vars

(***************************************************************************)
(* The neighbourhood of DBSCAN in cluster_embeddings under each configured *)
(* EMBEDDING_SIM_THRESHOLD: eps is the literal 0.55, settings is read for  *)
(* MIN_CLUSTER_SIZE only.                                                  *)
(***************************************************************************)
\* values of settings.EMBEDDING_SIM_THRESHOLD, in hundredths
ConfiguredThresholds == {80, EMBEDDING_SIM_THRESHOLD, 90, 97}

NeighbourInit ==
    /\ now = 0
    /\ documents = <<>>
    /\ events = <<>>
    /\ event_docs = {}
    /\ batches = 0
    /\ last_tick = NoTick
    /\ daily_metrics = {}
    /\ daily_aspect_metrics = {}
    /\ scheduler = NoScheduler
    /\ call \in [fn : {"neighbours"}, T : ConfiguredThresholds,
                 a : ClusterVecs, b : ClusterVecs, returned : {FALSE},
                 result : {FALSE}]

\* whether DBSCAN takes two rows of the matrix as neighbours
NeighbourCall ==
    /\ call.fn = "neighbours"
    /\ ~call.returned
    /\ call' = [call EXCEPT !.returned = TRUE,
                            !.result = WithinEps(call.a, call.b)]
    /\ UNCHANGED <<now, documents, events, event_docs, batches, last_tick,
                   daily_metrics, daily_aspect_metrics, scheduler>>

NeighbourSpec == NeighbourInit /\ [][NeighbourCall]_vars

(***************************************************************************)
(* app/engine/long_term.py: the daily aggregation                          *)
(*                                                                         *)
(* A date is a day number; day d is the intervals d * Hours(24) up to, and *)
(* not including, (d + 1) * Hours(24).  A row of daily_metrics and of      *)
(* daily_aspect_metrics has the autoincremented primary key id; (brand,    *)
(* date) and (brand, date, aspect) carry a unique index.                   *)
(***************************************************************************)
NoAspect == "null"

\* a document dated day_end is selected too
DayDocsInclusive(docs, target_date) ==
    {i \in DOMAIN docs :
        /\ docs[i].created_at >= target_date * Hours(24)
        /\ docs[i].created_at <= (target_date + 1) * Hours(24)}

\* the documents the WHERE clauses on created_at select
DayDocs(docs, target_date) ==
    {i \in DOMAIN docs :
        /\ docs[i].created_at >= target_date * Hours(24)
        /\ docs[i].created_at < (target_date + 1) * Hours(24)}

\* func.count() of the documents of ids with the sentiment
SentimentCount(docs, ids, sentiment) ==
    Cardinality({i \in ids : docs[i].sentiment = sentiment})

\* the id an INSERT gives a row: one more than the greatest of the table
NextId(table) ==
    IF table = {} THEN 1
    ELSE (CHOOSE r \in table : \A q \in table : q.id <= r.id).id + 1

\* the row is added, whatever rows the table has for its key
InsertDailyMetrics(table, row) ==
    table \cup {[row EXCEPT !.id = NextId(table)]}

\* delete(DailyMetrics).where(brand, date), then session.add(DailyMetrics(..))
ReplaceDailyMetrics(table, row) ==
    LET kept == {r \in table : ~(r.brand = row.brand /\ r.date = row.date)}
    IN  kept \cup {[row EXCEPT !.id = NextId(kept)]}

RECURSIVE AggregateDaily(_, _, _, _)
\* the loop of _aggregate_daily_metrics over the brands of the GROUP BY
AggregateDaily(docs, table, target_date, brands) ==
    IF brands = {} THEN table
    ELSE LET brand == CHOOSE b \in brands : TRUE
             ids == {i \in DayDocs(docs, target_date) : docs[i].brand = brand}
             row == [id |-> 0, date |-> target_date, brand |-> brand,
                     volume_total |-> Cardinality(ids),
                     pos_count |-> SentimentCount(docs, ids, "pos"),
                     neu_count |-> SentimentCount(docs, ids, "neu"),
                     neg_count |-> SentimentCount(docs, ids, "neg")]
         IN  AggregateDaily(docs, ReplaceDailyMetrics(table, row), target_date,
                            brands \ {brand})

aggregate_daily_metrics(docs, table, target_date) ==
    AggregateDaily(docs, table, target_date,
                   {docs[i].brand : i \in DayDocs(docs, target_date)})

\* delete(DailyAspectMetrics).where(brand, date, aspect), then session.add
ReplaceAspectMetrics(table, row) ==
    LET kept == {r \in table : ~(/\ r.brand = row.brand
                                 /\ r.date = row.date
                                 /\ r.aspect = row.aspect)}
    IN  kept \cup {[row EXCEPT !.id = NextId(kept)]}

RECURSIVE AggregateAspect(_, _, _, _)
\* the loop of _aggregate_aspect_metrics over the (brand, aspect) groups
AggregateAspect(docs, table, target_date, groups) ==
    IF groups = {} THEN table
    ELSE LET g == CHOOSE x \in groups : TRUE
             ids == {i \in DayDocs(docs, target_date) :
                        docs[i].brand = g[1] /\ docs[i].aspect = g[2]}
             row == [id |-> 0, date |-> target_date, brand |-> g[1], aspect |-> g[2],
                     volume |-> Cardinality(ids),
                     neg_count |-> SentimentCount(docs, ids, "neg")]
         IN  AggregateAspect(docs, ReplaceAspectMetrics(table, row), target_date,
                             groups \ {g})

\* the documents without aspect form groups too
aggregate_aspect_metrics_null_groups(docs, table, target_date) ==
    AggregateAspect(docs, table, target_date,
        {<<docs[i].brand, docs[i].aspect>> : i \in DayDocs(docs, target_date)})

\* _aggregate_aspect_metrics: GROUP BY brand, aspect WHERE aspect IS NOT NULL
aggregate_aspect_metrics(docs, table, target_date) ==
    AggregateAspect(docs, table, target_date,
        {<<docs[i].brand, docs[i].aspect>> :
            i \in {j \in DayDocs(docs, target_date) : docs[j].aspect # NoAspect}})

\* the unique index idx_daily_metrics_brand_date refuses the table
DailyIndexViolated(table) ==
    \E r, q \in table : r # q /\ r.brand = q.brand /\ r.date = q.date

\* the unique index idx_daily_aspect_brand_date refuses the table
AspectIndexViolated(table) ==
    \E r, q \in table :
        r # q /\ r.brand = q.brand /\ r.date = q.date /\ r.aspect = q.aspect

\* run_long_term_engine(session, target_date): the tables it commits; with
\* an IntegrityError nothing is committed
run_long_term_engine(docs, daily, aspects, target_date) ==
    LET d == aggregate_daily_metrics(docs, daily, target_date)
        a == aggregate_aspect_metrics(docs, aspects, target_date)
    IN  IF DailyIndexViolated(d) \/ AspectIndexViolated(a)
        THEN [raised |-> "IntegrityError", daily_metrics |-> daily,
              daily_aspect_metrics |-> aspects]
        ELSE [raised |-> NoException, daily_metrics |-> d,
              daily_aspect_metrics |-> a]

\* the documents of the aggregation: at the end of day 0, at the start and
\* at the end of day 1, at the start of day 2
AggTimes == {Hours(24) - 1, Hours(24), 2 * Hours(24) - 1, 2 * Hours(24)}

AggDocs ==
    [brand : Brands, created_at : AggTimes, sentiment : {"pos", "neu", "neg"},
     aspect : {NoAspect, "price"}]

AggDates == {0, 1}

LongInit ==
    /\ now = 2 * Hours(24)
    /\ documents \in UNION {[1..n -> AggDocs] : n \in 0..MaxAggDocs}
    /\ events = <<>>
    /\ event_docs = {}
    /\ batches = 0
    /\ last_tick = NoTick
    /\ daily_metrics = {}
    /\ daily_aspect_metrics = {}
    /\ scheduler = NoScheduler
    /\ call = [fn |-> "run_long_term_engine", target_date |-> -1,
               raised |-> NoException, runs |-> 0, done |-> {}]

\* _run_long_term: one run of the aggregation for a target date; done are
\* the dates aggregated without exception before this run
RunLongTerm(target_date) ==
    /\ call.fn = "run_long_term_engine"
    /\ call.runs < MaxRuns
    /\ \E r \in {run_long_term_engine(documents, daily_metrics,
                                      daily_aspect_metrics, target_date)} :
          /\ daily_metrics' = r.daily_metrics
          /\ daily_aspect_metrics' = r.daily_aspect_metrics
          /\ call' = [fn |-> "run_long_term_engine", target_date |-> target_date,
                      raised |-> r.raised, runs |-> call.runs + 1,
                      done |-> IF call.target_date >= 0 /\ call.raised = NoException
                               THEN call.done \cup {call.target_date}
                               ELSE call.done]
    /\ UNCHANGED <<now, documents, events, event_docs, batches, last_tick, scheduler>>

LongSpec == LongInit /\ [][\E target_date \in AggDates : RunLongTerm(target_date)]_vars

(***************************************************************************)
(* app/scheduler/jobs.py: the cron job of the aggregation, and a database  *)
(* statement that fails.  The job falls due at 00:00 of every day and      *)
(* aggregates the day before; any statement of the run, the commit         *)
(* included, may raise (the database is locked, the connection is lost).   *)
(***************************************************************************)
\* where a run raises: in _aggregate_daily_metrics before its first write,
\* in _aggregate_aspect_metrics before its first write, in session.commit()
FailPoints == {"daily", "aspect", "commit"}

\* the tables as the session of a failing run holds them when it raises
SessionAtFailure(docs, daily, aspects, target_date, point) ==
    [daily_metrics |->
        IF point = "daily" THEN daily
        ELSE aggregate_daily_metrics(docs, daily, target_date),
     daily_aspect_metrics |->
        IF point = "commit" THEN aggregate_aspect_metrics(docs, aspects, target_date)
        ELSE aspects]

\* what the session held is written
FailedRunKeepsSession(pre, session) == session

\* The committed tables after a run that raised: the exception leaves
\* run_long_term_engine before its commit and the session is closed.
FailedRunTables(pre, session) == pre

NoCronCall ==
    [fn |-> "_run_long_term", by |-> "none", target_date |-> -1,
     raised |-> NoException, point |-> "none",
     pre |-> [daily_metrics |-> {}, daily_aspect_metrics |-> {}],
     failed |-> {}, succeeded |-> {}, runs |-> 0]

\* documents of the last interval of day 0 and of the first of day 1
CronDocs ==
    {d \in AggDocs : /\ d.created_at \in {Hours(24) - 1, Hours(24)}
                     /\ d.sentiment \in {"pos", "neg"}}

\* the scheduler starts at 00:00 of day 1
CronInit ==
    /\ now = Hours(24)
    /\ documents \in UNION {[1..n -> CronDocs] : n \in 0..MaxAggDocs}
    /\ events = <<>>
    /\ event_docs = {}
    /\ batches = 0
    /\ last_tick = NoTick
    /\ daily_metrics = {}
    /\ daily_aspect_metrics = {}
    /\ scheduler = NoScheduler
    /\ call = NoCronCall

\* One run of run_long_term_engine for target_date, started by `by`: it
\* commits, or it raises at a point and _run_long_term logs the exception.
AggregationRun(by, target_date) ==
    /\ call.runs < MaxCronRuns
    /\ \/ \E r \in {run_long_term_engine(documents, daily_metrics,
                                         daily_aspect_metrics, target_date)} :
             /\ daily_metrics' = r.daily_metrics
             /\ daily_aspect_metrics' = r.daily_aspect_metrics
             /\ call' = [call EXCEPT
                            !.by = by, !.target_date = target_date, !.runs = @ + 1,
                            !.raised = r.raised, !.point = "none",
                            !.pre = [daily_metrics |-> daily_metrics,
                                     daily_aspect_metrics |-> daily_aspect_metrics],
                            !.succeeded = IF r.raised = NoException
                                          THEN @ \cup {target_date} ELSE @,
                            !.failed = IF r.raised = NoException THEN @
                                       ELSE @ \cup {target_date}]
       \/ \E point \in FailPoints :
          \E tables \in {FailedRunTables(
                            [daily_metrics |-> daily_metrics,
                             daily_aspect_metrics |-> daily_aspect_metrics],
                            SessionAtFailure(documents, daily_metrics,
                                daily_aspect_metrics, target_date, point))} :
             /\ daily_metrics' = tables.daily_metrics
             /\ daily_aspect_metrics' = tables.daily_aspect_metrics
             /\ call' = [call EXCEPT
                            !.by = by, !.target_date = target_date, !.runs = @ + 1,
                            !.raised = "OperationalError", !.point = point,
                            !.pre = [daily_metrics |-> daily_metrics,
                                     daily_aspect_metrics |-> daily_aspect_metrics],
                            !.failed = @ \cup {target_date}]

\* the cron job at 00:00: target_date is yesterday; the next run is due a
\* day later
CronFire ==
    /\ now <= MaxCronDays * Hours(24)
    /\ AggregationRun("cron", (now - Hours(24)) \div Hours(24))
    /\ now' = now + Hours(24)
    /\ UNCHANGED <<documents, events, event_docs, batches, last_tick, scheduler>>

\* run_long_term_engine(session, target_date) called for a past date
ExplicitRun(target_date) ==
    /\ now > Hours(24)
    /\ target_date < (now - Hours(24)) \div Hours(24)
    /\ AggregationRun("explicit", target_date)
    /\ UNCHANGED <<now, documents, events, event_docs, batches, last_tick, scheduler>>

CronNext == CronFire \/ \E target_date \in AggDates : ExplicitRun(target_date)

CronSpec == CronInit /\ [][CronNext]_vars

(***************************************************************************)
(* app/scheduler/jobs.py: the two jobs executing at the same time, each on *)
(* its thread and in its session.  A job reads the tables when it begins   *)
(* and writes when it commits; the steps of the two interleave freely.     *)
(***************************************************************************)
\* the commit writes every table the way the session first saw it, apart
\* from its own result
CommitLongTermAllTables(tables, seen, r) ==
    [seen EXCEPT !.daily_metrics = r.daily_metrics,
                 !.daily_aspect_metrics = r.daily_aspect_metrics]

\* The tables after the commit of run_long_term_engine: the session holds
\* DailyMetrics and DailyAspectMetrics rows only.
CommitLongTerm(tables, seen, r) ==
    [tables EXCEPT !.daily_metrics = r.daily_metrics,
                   !.daily_aspect_metrics = r.daily_aspect_metrics]

\* The tables after the commit of run_short_term_engine: the session holds
\* Event and EventDoc rows only.
CommitShortTerm(tables, seen, r) ==
    [tables EXCEPT !.events = r.events, !.event_docs = r.event_docs]

Tables ==
    [events |-> events, event_docs |-> event_docs,
     daily_metrics |-> daily_metrics, daily_aspect_metrics |-> daily_aspect_metrics]

Idle == [stage |-> "idle"]

\* One or two batches of documents, each with an aspect or none, were
\* ingested in the last interval of day 0; both jobs fall due at 00:00.
JobsInit ==
    /\ now = Hours(24)
    /\ \E bs \in UNION {[1..n -> Batches \X {NoAspect, "price"}] : n \in 1..2} :
          /\ documents =
                [k \in 1..bs[1][1].n |->
                    [brand |-> bs[1][1].brand, created_at |-> Hours(24) - 1,
                     sentiment |-> IF k <= bs[1][1].neg THEN "neg" ELSE "pos",
                     embedding |-> bs[1][1].embedding, aspect |-> bs[1][2],
                     region_group |-> bs[1][1].regions[k]]]
                \o (IF Len(bs) = 1 THEN <<>>
                    ELSE [k \in 1..bs[2][1].n |->
                            [brand |-> bs[2][1].brand, created_at |-> Hours(24) - 1,
                             sentiment |-> IF k <= bs[2][1].neg THEN "neg" ELSE "pos",
                             embedding |-> bs[2][1].embedding, aspect |-> bs[2][2],
                             region_group |-> bs[2][1].regions[k]]])
          /\ Len(documents) <= MaxDocs
          /\ batches = Len(bs)
    /\ events = <<>>
    /\ event_docs = {}
    /\ last_tick = NoTick
    /\ daily_metrics = {}
    /\ daily_aspect_metrics = {}
    /\ scheduler = NoScheduler
    /\ call = [fn |-> "start_scheduler", round |-> 1,
               documents |-> documents,
               pre |-> [events |-> <<>>, event_docs |-> {},
                        daily_metrics |-> {}, daily_aspect_metrics |-> {}],
               short |-> Idle, long |-> Idle]

\* _run_short_term opens its session and the engine reads and matches
ShortTermBegin ==
    /\ call.fn = "start_scheduler"
    /\ call.short.stage = "idle"
    /\ \E scan_order \in ScanOrders(Len(events)) :
       \E skews \in SkewSeqs(Len(BrandsInOrder(documents, WindowDocs(documents, now), {}))) :
       \E r \in {run_short_term_engine(documents, events, event_docs, now,
                                       skews, scan_order)} :
          /\ Len(r.events) <= MaxEvents
          /\ call' = [call EXCEPT !.short =
                         [stage |-> "running", seen |-> Tables, skews |-> skews,
                          scan_order |-> scan_order,
                          r |-> [events |-> r.events, event_docs |-> r.event_docs]]]
    /\ UNCHANGED <<now, documents, events, event_docs, batches, last_tick,
                   daily_metrics, daily_aspect_metrics, scheduler>>

\* the commit of run_short_term_engine, or its end without commit
ShortTermCommit ==
    /\ call.fn = "start_scheduler"
    /\ call.short.stage = "running"
    /\ \E tables \in {CommitShortTerm(Tables, call.short.seen, call.short.r)} :
          /\ events' = tables.events
          /\ event_docs' = tables.event_docs
          /\ daily_metrics' = tables.daily_metrics
          /\ daily_aspect_metrics' = tables.daily_aspect_metrics
    /\ call' = [call EXCEPT !.short.stage = "done"]
    /\ UNCHANGED <<now, documents, batches, last_tick, scheduler>>

\* _run_long_term opens its session and the engine aggregates yesterday
LongTermBegin ==
    /\ call.fn = "start_scheduler"
    /\ call.long.stage = "idle"
    /\ \E r \in {run_long_term_engine(documents, daily_metrics, daily_aspect_metrics,
                                      (now - Hours(24)) \div Hours(24))} :
          call' = [call EXCEPT !.long =
                      [stage |-> "running", seen |-> Tables,
                       r |-> [daily_metrics |-> r.daily_metrics,
                              daily_aspect_metrics |-> r.daily_aspect_metrics]]]
    /\ UNCHANGED <<now, documents, events, event_docs, batches, last_tick,
                   daily_metrics, daily_aspect_metrics, scheduler>>

\* the commit of run_long_term_engine
LongTermCommit ==
    /\ call.fn = "start_scheduler"
    /\ call.long.stage = "running"
    /\ \E tables \in {CommitLongTerm(Tables, call.long.seen, call.long.r)} :
          /\ events' = tables.events
          /\ event_docs' = tables.event_docs
          /\ daily_metrics' = tables.daily_metrics
          /\ daily_aspect_metrics' = tables.daily_aspect_metrics
    /\ call' = [call EXCEPT !.long.stage = "done"]
    /\ UNCHANGED <<now, documents, batches, last_tick, scheduler>>

\* both jobs have ended; they fall due together again one interval later
NextRound ==
    /\ call.fn = "start_scheduler"
    /\ call.short.stage = "done"
    /\ call.long.stage = "done"
    /\ call.round < MaxJobRounds
    /\ call' = [call EXCEPT !.round = @ + 1, !.pre = Tables,
                            !.short = Idle, !.long = Idle]
    /\ now' = now + 1
    /\ UNCHANGED <<documents, events, event_docs, batches, last_tick,
                   daily_metrics, daily_aspect_metrics, scheduler>>

JobsNext ==
    \/ ShortTermBegin
    \/ ShortTermCommit
    \/ LongTermBegin
    \/ LongTermCommit
    \/ NextRound

JobsSpec == JobsInit /\ [][JobsNext]_vars

(***************************************************************************)
(* app/engine/long_term.py, app/pipeline/ingestion.py: the queries of one  *)
(* aggregation run, one at a time, while ingest_documents commits          *)
(* documents from a request.  The run's SELECTs read the documents table   *)
(* as committed when each executes; the first DELETE of the run takes the  *)
(* write lock of the database, which the run holds until its commit.       *)
(***************************************************************************)
\* a document of the target day 0, as ingest_documents commits it
DayZeroDocs ==
    [brand : Brands, created_at : {Hours(24) - 1}, sentiment : {"pos", "neu", "neg"},
     aspect : {NoAspect}]

NoQuery == [fn |-> "run_long_term_engine", stage |-> "start", target_date |-> 0,
            totals |-> <<>>, row |-> 0, pos |-> 0, neu |-> 0, neg |-> 0,
            session |-> {}, locked |-> FALSE, ingests |-> 0]

QueryInit ==
    /\ now = Hours(24)
    /\ documents \in UNION {[1..n -> DayZeroDocs] : n \in 0..1}
    /\ events = <<>>
    /\ event_docs = {}
    /\ batches = 0
    /\ last_tick = NoTick
    /\ daily_metrics = {}
    /\ daily_aspect_metrics = {}
    /\ scheduler = NoScheduler
    /\ call = NoQuery

QueryUnchanged == UNCHANGED <<now, events, event_docs, batches, last_tick, scheduler>>

\* the brands of the GROUP BY with their count(), in the order of the result
GroupRows(docs, target_date) ==
    LET ids == DayDocs(docs, target_date)
        brands == BrandsInOrder(docs, SelectSeq([i \in DOMAIN docs |-> i],
                                                LAMBDA i : i \in ids), {})
    IN  [k \in DOMAIN brands |->
            [brand |-> brands[k],
             volume_total |-> Cardinality({i \in ids : docs[i].brand = brands[k]})]]

\* select(Document.brand, func.count()) ... group_by(Document.brand)
GroupByQuery ==
    /\ call.stage = "start"
    /\ \E rows \in {GroupRows(documents, call.target_date)} :
          call' = [call EXCEPT !.totals = rows,
                               !.row = 1,
                               !.stage = IF rows = <<>> THEN "aspects" ELSE "pos"]
    /\ UNCHANGED <<documents, daily_metrics, daily_aspect_metrics>>
    /\ QueryUnchanged

\* func.count() of the brand's documents of the day with the sentiment
CountOf(sentiment) ==
    SentimentCount(documents,
        {i \in DayDocs(documents, call.target_date) :
            documents[i].brand = call.totals[call.row].brand}, sentiment)

\* pos_q, neu_q, neg_q of the current row, in this order
CountQuery ==
    /\ call.stage \in {"pos", "neu", "neg"}
    /\ call' = CASE call.stage = "pos" ->
                      [call EXCEPT !.pos = CountOf("pos"), !.stage = "neu"]
                 [] call.stage = "neu" ->
                      [call EXCEPT !.neu = CountOf("neu"), !.stage = "neg"]
                 [] call.stage = "neg" ->
                      [call EXCEPT !.neg = CountOf("neg"), !.stage = "write"]
    /\ UNCHANGED <<documents, daily_metrics, daily_aspect_metrics>>
    /\ QueryUnchanged

\* delete(DailyMetrics) of the row's key and session.add(DailyMetrics(...));
\* the loop goes on with the next row of the result
WriteRow ==
    /\ call.stage = "write"
    /\ call' = [call EXCEPT
                  !.session = ReplaceDailyMetrics(call.session,
                                 [id |-> 0, date |-> call.target_date,
                                  brand |-> call.totals[call.row].brand,
                                  volume_total |-> call.totals[call.row].volume_total,
                                  pos_count |-> call.pos,
                                  neu_count |-> call.neu,
                                  neg_count |-> call.neg]),
                  !.locked = TRUE,
                  !.row = call.row + 1,
                  !.stage = IF call.row < Len(call.totals) THEN "pos" ELSE "aspects"]
    /\ UNCHANGED <<documents, daily_metrics, daily_aspect_metrics>>
    /\ QueryUnchanged

\* _aggregate_aspect_metrics and session.commit()
AspectsAndCommit ==
    /\ call.stage = "aspects"
    /\ daily_metrics' = call.session
    /\ daily_aspect_metrics' = aggregate_aspect_metrics(documents, daily_aspect_metrics,
                                                        call.target_date)
    /\ call' = [call EXCEPT !.stage = "committed", !.locked = FALSE]
    /\ UNCHANGED documents
    /\ QueryUnchanged

\* ingest_documents commits a document while the run does not hold the
\* write lock
ConcurrentIngest(doc) ==
    /\ call.stage \notin {"start", "committed"}
    /\ ~call.locked
    /\ call.ingests < MaxIngests
    /\ documents' = Append(documents, doc)
    /\ call' = [call EXCEPT !.ingests = call.ingests + 1]
    /\ UNCHANGED <<daily_metrics, daily_aspect_metrics>>
    /\ QueryUnchanged

QueryNext ==
    \/ GroupByQuery
    \/ CountQuery
    \/ WriteRow
    \/ AspectsAndCommit
    \/ \E doc \in DayZeroDocs : ConcurrentIngest(doc)

QuerySpec == QueryInit /\ [][QueryNext]_vars

(***************************************************************************)
(* Properties of compute_severity (under SevSpec)                          *)
(***************************************************************************)
SevReturned == call.fn = "compute_severity" /\ call.result # "pending"

\* call.neg_ratio > P0_NEG_RATIO, and call.neg_ratio = P0_NEG_RATIO
CallRatioAbove == call.neg_ratio[1] * 100 > P0_NEG_RATIO * call.neg_ratio[2]

CallRatioEqual == call.neg_ratio[1] * 100 = P0_NEG_RATIO * call.neg_ratio[2]

\* C1: compute_severity returns P0 exactly when cluster_size > P0_CLUSTER_SIZE
\* and neg_ratio > P0_NEG_RATIO; otherwise P1 exactly when cluster_size >
\* P1_CLUSTER_SIZE; otherwise P2.  A size above the P0 size with a ratio not
\* above the P0 ratio yields P1.
C1_SeverityTiers ==
    SevReturned =>
        LET p0 == call.cluster_size > P0_CLUSTER_SIZE /\ CallRatioAbove
            p1 == ~p0 /\ call.cluster_size > P1_CLUSTER_SIZE
        IN  /\ (call.result = "P0") <=> p0
            /\ (call.result = "P1") <=> p1
            /\ (call.result = "P2") <=> (~p0 /\ ~p1)
            /\ (call.cluster_size > P0_CLUSTER_SIZE /\ ~CallRatioAbove)
                   => call.result = "P1"

\* compute_severity(51, 1/2) has returned P1
C1_Witness ==
    /\ SevReturned
    /\ call.cluster_size > P0_CLUSTER_SIZE
    /\ ~CallRatioAbove
    /\ call.result = "P1"

\* C2: a value equal to a threshold does not satisfy that tier: size
\* P1_CLUSTER_SIZE gives P2 and P1_CLUSTER_SIZE + 1 gives P1 when P0 does not
\* apply; size P0_CLUSTER_SIZE or ratio P0_NEG_RATIO never gives P0.
C2_SeverityBoundaries ==
    SevReturned =>
        /\ call.cluster_size = P1_CLUSTER_SIZE => call.result = "P2"
        /\ (call.cluster_size = P1_CLUSTER_SIZE + 1
               /\ ~(call.cluster_size > P0_CLUSTER_SIZE /\ CallRatioAbove))
              => call.result = "P1"
        /\ (call.cluster_size = P0_CLUSTER_SIZE \/ CallRatioEqual)
              => call.result # "P0"

\* compute_severity(52, 7/10) has returned P1: the ratio equals the threshold
C2_Witness ==
    /\ SevReturned
    /\ call.cluster_size > P0_CLUSTER_SIZE
    /\ CallRatioEqual
    /\ call.result = "P1"

(***************************************************************************)
(* Properties of find_matching_event (under MatchSpec)                     *)
(***************************************************************************)
MatchReturned == call.fn = "find_matching_event" /\ call.result # -1

\* the similarity d / sqrt(n) of the cluster centroid and candidate k
CandSim(k) ==
    LET a == call.cluster_centroid
        b == call.centroids[k]
    IN  IF a = ZeroVec \/ b = ZeroVec THEN <<0, 1>>
        ELSE <<a[1] * b[1] + a[2] * b[2],
               (a[1] * a[1] + a[2] * a[2]) * (b[1] * b[1] + b[2] * b[2])>>

\* candidate k has a centroid whose similarity is at or above T (T > 0)
CandQualifies(k) ==
    /\ call.centroids[k] # NoCentroid
    /\ CandSim(k)[1] > 0
    /\ ~RatLess(CandSim(k)[1] * CandSim(k)[1], CandSim(k)[2], call.T * call.T, 10000)

\* candidate k has a centroid whose similarity is exactly T
CandAtThreshold(k) ==
    /\ CandQualifies(k)
    /\ ~RatLess(call.T * call.T, 10000, CandSim(k)[1] * CandSim(k)[1], CandSim(k)[2])

\* qualifying candidate j is strictly more similar than qualifying candidate k
CandHigher(j, k) ==
    RatLess(CandSim(k)[1] * CandSim(k)[1], CandSim(k)[2],
            CandSim(j)[1] * CandSim(j)[1], CandSim(j)[2])

LifecycleCutoff == last_tick.at - Hours(EVENT_LIFECYCLE_HOURS)

CoolingCutoff == last_tick.at - Minutes(EVENT_COOLING_THRESHOLD_MINUTES)

Merges == {k \in DOMAIN last_tick.outcomes : last_tick.outcomes[k].kind = "merged"}

Creations == {k \in DOMAIN last_tick.outcomes : last_tick.outcomes[k].kind = "created"}

MergesInto(e) == {k \in Merges : last_tick.outcomes[k].event = e}

LinkedDocs(links, e) == {l[2] : l \in {x \in links : x[1] = e}}

\* C3: for every event that is open, monitoring or cooling when the
\* lifecycle update runs at time now: last_update_time <= now -
\* LIFECYCLE_HOURS closes it (before cooling is considered); otherwise
\* last_update_time <= now - COOLING_THRESHOLD_HOURS makes it cooling;
\* otherwise its status is unchanged.  Both cutoffs are inclusive.
C3_LifecycleTransitions ==
    last_tick.ran =>
        \A e \in DOMAIN last_tick.matched :
            LET m == last_tick.matched[e]
            IN  m.status \in {"open", "monitoring", "cooling"} =>
                    events[e].status =
                        IF m.last_update_time <= LifecycleCutoff THEN "closed"
                        ELSE IF m.last_update_time <= CoolingCutoff THEN "cooling"
                        ELSE m.status

\* a monitoring event whose last update is exactly LIFECYCLE_HOURS old has
\* been closed, without passing through cooling
C3_Witness ==
    /\ last_tick.ran
    /\ \E e \in DOMAIN last_tick.matched :
          /\ last_tick.matched[e].status = "monitoring"
          /\ last_tick.matched[e].last_update_time = LifecycleCutoff
          /\ events[e].status = "closed"

\* C4: closed is terminal: in every step an event that is closed keeps all
\* its fields (status, cluster_size, neg_ratio, severity, last_update_time)
\* and its EventDoc links, and no merge of the step targets it.
C4_ClosedIsTerminal ==
    [][\A e \in DOMAIN events :
          events[e].status = "closed" =>
              /\ e \in DOMAIN events'
              /\ events'[e] = events[e]
              /\ LinkedDocs(event_docs', e) = LinkedDocs(event_docs, e)
              /\ last_tick' # last_tick =>
                     \A k \in DOMAIN last_tick'.outcomes :
                         last_tick'.outcomes[k].kind = "merged"
                             => last_tick'.outcomes[k].event # e]_vars

\* a tick has found an event closed and has processed a cluster of that
\* event's brand whose centroid has similarity 1.0 with the event's centroid
C4_Witness ==
    \E e \in DOMAIN last_tick.before :
        /\ last_tick.before[e].status = "closed"
        /\ events[e] = last_tick.before[e]
        /\ \E k \in DOMAIN last_tick.outcomes :
              LET o == last_tick.outcomes[k]
                  c == get_event_centroid(e, documents, event_docs)
              IN  /\ o.brand = events[e].brand
                  /\ c # NoCentroid
                  /\ Dot(o.centroid, c) > 0
                  /\ Dot(o.centroid, c) * Dot(o.centroid, c)
                         = NormSq(o.centroid) * NormSq(c)

\* C5: an event merged into or created during a tick is exempt from both
\* lifecycle transitions of that tick: at the end of the tick a merged event
\* is monitoring and a created event is open.
C5_TouchedEventsExempt ==
    last_tick.ran =>
        /\ \A k \in Merges : events[last_tick.outcomes[k].event].status = "monitoring"
        /\ \A k \in Creations : events[last_tick.outcomes[k].event].status = "open"

\* the tick merged into an event whose last update was LIFECYCLE_HOURS old,
\* and the lifecycle update ran
C5_Witness ==
    /\ last_tick.ran
    /\ \E k \in Merges :
          LET e == last_tick.outcomes[k].event
          IN  /\ last_tick.before[e].last_update_time <= LifecycleCutoff
              /\ events[e].status = "monitoring"

\* C6: every merge sets the event's last_update_time to the tick time now and
\* its status to monitoring, whatever its status was among open, monitoring
\* and cooling.
C6_MergeBumpsAndRevives ==
    \A k \in Merges :
        LET o == last_tick.outcomes[k]
        IN  /\ o.prior_status \in {"open", "monitoring", "cooling"}
            /\ last_tick.matched[o.event].last_update_time = last_tick.at
            /\ last_tick.matched[o.event].status = "monitoring"
            /\ events[o.event].last_update_time = last_tick.at

\* a cooling event has been merged into
C6_Witness ==
    \E k \in Merges :
        /\ last_tick.outcomes[k].prior_status = "cooling"
        /\ last_tick.before[last_tick.outcomes[k].event].status = "cooling"
        /\ events[last_tick.outcomes[k].event].status = "monitoring"

\* the cluster of outcome o has similarity 1.0 with the k-th active event
SimilarityOne(o, k) ==
    /\ o.centroids[k] # NoCentroid
    /\ Dot(o.centroid, o.centroids[k]) > 0
    /\ Dot(o.centroid, o.centroids[k]) * Dot(o.centroid, o.centroids[k])
           = NormSq(o.centroid) * NormSq(o.centroids[k])

\* the cluster of outcome o has similarity 0 with the k-th active event
SimilarityZero(o, k) ==
    /\ o.centroids[k] # NoCentroid
    /\ Dot(o.centroid, o.centroids[k]) = 0

\* C8: each cluster of a tick is either merged into exactly one event that
\* was active, or exactly one new event is created for it; a cluster with
\* similarity 1.0 to an active event is merged; a cluster with similarity 0
\* to every active event creates an event, and an event that no cluster is
\* merged into is left as the tick found it.
C8_MergeOrCreate ==
    /\ Len(last_tick.matched) = Len(last_tick.before) + Cardinality(Creations)
    /\ \A k \in Merges :
          LET o == last_tick.outcomes[k]
          IN  /\ o.event \in DOMAIN last_tick.before
              /\ o.event \in Range(o.active)
              /\ last_tick.before[o.event].status \in ActiveStatuses
    /\ \A k \in Creations :
          LET o == last_tick.outcomes[k]
          IN  /\ o.event \in DOMAIN last_tick.matched \ DOMAIN last_tick.before
              /\ \A j \in Creations : last_tick.outcomes[j].event = o.event => j = k
              /\ LinkedDocs(event_docs, o.event) = Range(o.doc_ids)
    /\ \A k \in DOMAIN last_tick.outcomes :
          LET o == last_tick.outcomes[k]
          IN  /\ (\E i \in DOMAIN o.active : SimilarityOne(o, i)) => o.kind = "merged"
              /\ (\A i \in DOMAIN o.active : SimilarityZero(o, i)) => o.kind = "created"
    /\ \A e \in DOMAIN last_tick.before :
          MergesInto(e) = {} =>
              /\ last_tick.matched[e] = last_tick.before[e]
              /\ LinkedDocs(event_docs, e) = LinkedDocs(last_tick.before_docs, e)

\* in one tick a cluster with similarity 1.0 to an active event has been
\* merged and a cluster with similarity 0 to every active event (there is
\* one) has created an event
C8_Witness ==
    /\ \E k \in Merges :
          \E i \in DOMAIN last_tick.outcomes[k].active :
              SimilarityOne(last_tick.outcomes[k], i)
    /\ \E k \in Creations :
          LET o == last_tick.outcomes[k]
          IN  /\ o.active # <<>>
              /\ \A i \in DOMAIN o.active : SimilarityZero(o, i)

RECURSIVE MergedDocCount(_, _)
\* the sizes of the clusters among outcomes os that were merged into event e
MergedDocCount(os, e) ==
    IF os = <<>> THEN 0
    ELSE (IF Head(os).kind = "merged" /\ Head(os).event = e
          THEN Len(Head(os).doc_ids) ELSE 0)
         + MergedDocCount(Tail(os), e)

\* C9: a merge increases cluster_size by the number of doc_ids of the merged
\* cluster, whether or not they are already linked to the event.
C9_MergeAddsClusterSize ==
    \A e \in DOMAIN last_tick.before :
        /\ last_tick.matched[e].cluster_size
               = last_tick.before[e].cluster_size
                 + MergedDocCount(last_tick.outcomes, e)
        /\ events[e].cluster_size = last_tick.matched[e].cluster_size

\* a cluster of n documents, all linked to the event before the tick, has
\* been merged for at least the third time: cluster_size is at least 3 * n
\* while n documents are linked
C9_Witness ==
    \E k \in Merges :
        LET o == last_tick.outcomes[k]
            n == Len(o.doc_ids)
        IN  /\ Range(o.doc_ids) = LinkedDocs(last_tick.before_docs, o.event)
            /\ LinkedDocs(event_docs, o.event) = Range(o.doc_ids)
            /\ last_tick.before[o.event].cluster_size >= 2 * n
            /\ events[o.event].cluster_size = last_tick.before[o.event].cluster_size + n

\* C10: the cluster_size of an event never decreases, whatever the step:
\* a merge, a creation, a lifecycle update.
C10_ClusterSizeMonotone ==
    [][\A e \in DOMAIN events :
          /\ e \in DOMAIN events'
          /\ events'[e].cluster_size >= events[e].cluster_size]_vars

\* an event has grown by merges and has then been closed
C10_Witness ==
    \E e \in DOMAIN events :
        /\ events[e].status = "closed"
        /\ events[e].cluster_size > Cardinality(LinkedDocs(event_docs, e))

LastOf(S) == CHOOSE x \in S : \A y \in S : y <= x

\* the number of sentiment == "neg" documents among those of ids
NegCount(ids) == Cardinality({i \in Range(ids) : documents[i].sentiment = "neg"})

\* C11: after a merge the event's neg_ratio is the fraction of negative
\* documents of the cluster merged last, whatever the event's neg_ratio and
\* linked documents were before.
C11_NegRatioOverwritten ==
    \A e \in DOMAIN last_tick.matched :
        MergesInto(e) # {} =>
            LET o == last_tick.outcomes[LastOf(MergesInto(e))]
            IN  /\ events[e].neg_ratio[2] = Len(o.doc_ids)
                /\ events[e].neg_ratio[1] = NegCount(o.doc_ids)
                /\ last_tick.matched[e].neg_ratio = events[e].neg_ratio

\* a cluster with one negative document in five has been merged into an
\* event whose neg_ratio was higher and which has linked negative documents
\* outside the cluster
C11_Witness ==
    \E k \in Merges :
        LET o == last_tick.outcomes[k]
            b == last_tick.before[o.event]
        IN  /\ MergesInto(o.event) = {k}
            /\ b.neg_ratio[1] * Len(o.doc_ids) > NegCount(o.doc_ids) * b.neg_ratio[2]
            /\ \E i \in LinkedDocs(last_tick.before_docs, o.event) \ Range(o.doc_ids) :
                  documents[i].sentiment = "neg"
            /\ events[o.event].neg_ratio = <<NegCount(o.doc_ids), Len(o.doc_ids)>>
            /\ NegCount(o.doc_ids) > 0

RECURSIVE InsertedCount(_)
\* the number of EventDoc rows the outcomes os added to the session
InsertedCount(os) ==
    IF os = <<>> THEN 0 ELSE Len(Head(os).inserted) + InsertedCount(Tail(os))

\* C12: there is one EventDoc row per linked (event_id, doc_id) pair and
\* linking never fails: a merge adds a row only for the doc_ids of the
\* cluster that the event does not link yet, so no tick ends in an
\* IntegrityError, every row added is a new pair, and after the tick the
\* event links the documents it linked before and those of the cluster.
C12_OneRowPerPair ==
    /\ last_tick.raised # "IntegrityError"
    /\ Cardinality(event_docs)
           = Cardinality(last_tick.before_docs) + InsertedCount(last_tick.outcomes)
    /\ \A k \in Merges :
          LET o == last_tick.outcomes[k]
          IN  /\ Range(o.inserted) \cap LinkedDocs(last_tick.before_docs, o.event) = {}
              /\ Range(o.doc_ids) \subseteq LinkedDocs(event_docs, o.event)
              /\ LinkedDocs(last_tick.before_docs, o.event)
                     \subseteq LinkedDocs(event_docs, o.event)

\* a cluster has been merged into an event that linked some of its
\* documents already, and the others not yet
C12_Witness ==
    \E k \in Merges :
        LET o == last_tick.outcomes[k]
        IN  /\ Range(o.doc_ids) \cap LinkedDocs(last_tick.before_docs, o.event) # {}
            /\ o.inserted # <<>>
            /\ Cardinality(LinkedDocs(event_docs, o.event))
                   = Cardinality(LinkedDocs(last_tick.before_docs, o.event))
                     + Len(o.inserted)
            /\ Len(o.inserted) < Len(o.doc_ids)

\* no active event offered to the cluster of outcome o reaches the threshold
NoneQualifies(o) ==
    \A i \in DOMAIN o.active :
        \/ o.centroids[i] = NoCentroid
        \/ ~SimAtLeast(cosine_similarity(o.centroid, o.centroids[i]),
                       EMBEDDING_SIM_THRESHOLD)

\* C13: a cluster that no active event matches creates one new event with
\* cluster_size = the number of its doc_ids, neg_ratio = its negative
\* fraction, status open, start_time = last_update_time = now, severity =
\* compute_severity of these values, linked to exactly its doc_ids; a cluster
\* that an active event matches creates none.
C13_CreatedEventFields ==
    \A k \in DOMAIN last_tick.outcomes :
        LET o == last_tick.outcomes[k]
        IN  /\ NoneQualifies(o) <=> o.kind = "created"
            /\ o.kind = "created" =>
                  /\ o.event \in DOMAIN events \ DOMAIN last_tick.before
                  /\ \A j \in Creations : last_tick.outcomes[j].event = o.event => j = k
                  /\ events[o.event].brand = o.brand
                  /\ events[o.event].cluster_size = Len(o.doc_ids)
                  /\ events[o.event].neg_ratio = <<NegCount(o.doc_ids), Len(o.doc_ids)>>
                  /\ events[o.event].status = "open"
                  /\ events[o.event].start_time = last_tick.at
                  /\ events[o.event].last_update_time = last_tick.at
                  /\ events[o.event].severity
                         = compute_severity(Len(o.doc_ids),
                                            <<NegCount(o.doc_ids), Len(o.doc_ids)>>)
                  /\ LinkedDocs(event_docs, o.event) = Range(o.doc_ids)

\* the first tick found one cluster of 5 negative documents and no event:
\* one event with cluster_size 5, neg_ratio 1.0, status open, severity P2
C13_Witness ==
    /\ last_tick.before = <<>>
    /\ Len(events) = 1
    /\ Creations = {1}
    /\ Len(last_tick.outcomes[1].doc_ids) = MIN_CLUSTER_SIZE
    /\ events[1].cluster_size = MIN_CLUSTER_SIZE
    /\ events[1].neg_ratio = <<MIN_CLUSTER_SIZE, MIN_CLUSTER_SIZE>>
    /\ events[1].status = "open"
    /\ events[1].severity = "P2"
    /\ events[1].start_time = last_tick.at

(***************************************************************************)
(* Properties of the daily aggregation (under LongSpec)                    *)
(***************************************************************************)
\* the rows of a table without their ids
Values(table) == {[r EXCEPT !.id = 0] : r \in table}

\* the dates aggregated so far, the latest run included
AggregatedDates ==
    call.done \cup (IF call.target_date >= 0 /\ call.raised = NoException
                    THEN {call.target_date} ELSE {})

\* C14: over an unchanged document set, every run of the aggregation
\* succeeds and leaves one daily_metrics row per (brand, date) and one
\* daily_aspect_metrics row per (brand, date, aspect), and a run for a date
\* aggregated before leaves the values of all rows as they were.
C14_AggregationIdempotent ==
    /\ [](/\ call.raised = NoException
          /\ \A r, q \in daily_metrics :
                r.brand = q.brand /\ r.date = q.date => r = q
          /\ \A r, q \in daily_aspect_metrics :
                r.brand = q.brand /\ r.date = q.date /\ r.aspect = q.aspect => r = q)
    /\ [][call'.target_date \in AggregatedDates =>
              /\ Values(daily_metrics') = Values(daily_metrics)
              /\ Values(daily_aspect_metrics') = Values(daily_aspect_metrics)]_vars

\* the aggregation has run again for a date it had aggregated, writing anew
\* a daily_metrics row that counts two documents and a row per aspect
C14_Witness ==
    /\ call.fn = "run_long_term_engine"
    /\ call.target_date \in call.done
    /\ \E r \in daily_metrics :
          /\ r.date = call.target_date
          /\ r.volume_total = 2
          /\ r.neg_count = 1
    /\ \E r \in daily_aspect_metrics :
          r.date = call.target_date /\ r.volume = 2 /\ r.neg_count = 1
    /\ Cardinality(daily_metrics) = 1
    /\ Cardinality(daily_aspect_metrics) = 1

(***************************************************************************)
(* Properties of the scheduler (under SchedSpec)                           *)
(***************************************************************************)
\* C15: at most one short-term tick executes at any moment; a run that
\* falls due while a tick executes is skipped: it starts no second tick,
\* and it is not kept for later, a tick starts only at the scheduled time it
\* is the run of.
C15_NonReentrant ==
    /\ [](/\ Len(scheduler.running) <= 1
          /\ scheduler.fired
                 = scheduler.finished + Len(scheduler.running) + scheduler.skipped)
    /\ [][scheduler'.fired # scheduler.fired /\ scheduler.running # <<>> =>
              /\ scheduler'.running = scheduler.running
              /\ scheduler'.skipped = scheduler.skipped + 1]_vars
    /\ [][Len(scheduler'.running) > Len(scheduler.running) =>
              /\ scheduler.running = <<>>
              /\ scheduler'.running = <<now>>
              /\ scheduler'.fired = scheduler.fired + 1]_vars

\* a tick executed through two scheduled times, which were skipped, and has
\* ended; the run due next started a tick
C15_Witness ==
    /\ scheduler.skipped = 2
    /\ scheduler.finished = 1
    /\ scheduler.running = <<3>>
    /\ last_tick.at = 0
    /\ events # <<>>

(***************************************************************************)
(* Exceptions in a tick (under Spec)                                       *)
(***************************************************************************)
\* C16: when the processing of one brand raises an exception, the tick goes
\* on: all other brands of the window are processed, the lifecycle update
\* runs, and what the tick did for the other brands is committed.
C16_BrandFailureIsolated ==
    last_tick.raised # NoException =>
        /\ Len(last_tick.processed) = Len(last_tick.brands) - 1
        /\ last_tick.ran
        /\ \A k \in DOMAIN last_tick.attempted :
              LET o == last_tick.attempted[k]
              IN  /\ o.event \in DOMAIN events
                  /\ events[o.event].last_update_time = last_tick.at
                  /\ Range(o.doc_ids) \subseteq LinkedDocs(event_docs, o.event)

\* the documents of brand b that the tick found in its window
TickBrandDocs(b) ==
    {i \in Range(WindowDocs(documents, last_tick.at)) :
        documents[i].created_at <= last_tick.at /\ documents[i].brand = b}

\* those of them that have an embedding
TickEmbedded(b) == {i \in TickBrandDocs(b) : documents[i].embedding # NoEmbedding}

\* the brand whose processing raised the exception of the tick
RaisingBrand == last_tick.brands[Len(last_tick.processed) + 1]

\* C17: a brand with fewer than MIN_CLUSTER_SIZE documents with an
\* embedding in the window (documents without embedding not counted) gets
\* no cluster: matching creates no event of the brand and changes none, and
\* the brand raises no error.
C17_TooFewEmbeddings ==
    \A k \in DOMAIN last_tick.brands :
        LET b == last_tick.brands[k]
        IN  Cardinality(TickEmbedded(b)) < MIN_CLUSTER_SIZE =>
                /\ \A j \in DOMAIN last_tick.attempted : last_tick.attempted[j].brand # b
                /\ last_tick.raised # NoException => RaisingBrand # b
                /\ \A e \in DOMAIN last_tick.matched :
                      last_tick.matched[e].brand = b =>
                          /\ e \in DOMAIN last_tick.before
                          /\ last_tick.matched[e] = last_tick.before[e]
                          /\ LinkedDocs(event_docs, e)
                                 = LinkedDocs(last_tick.before_docs, e)

\* the tick found MIN_CLUSTER_SIZE documents of a brand, one of them without
\* embedding, and an active event of the brand: it ran and left the event
\* to the lifecycle update
C17_Witness ==
    /\ last_tick.ran
    /\ \E b \in Range(last_tick.brands) :
          /\ Cardinality(TickBrandDocs(b)) = MIN_CLUSTER_SIZE
          /\ Cardinality(TickEmbedded(b)) = MIN_CLUSTER_SIZE - 1
          /\ b \in Range(last_tick.processed)
          /\ \E e \in DOMAIN last_tick.before :
                /\ last_tick.before[e].brand = b
                /\ last_tick.before[e].status \in ActiveStatuses

(***************************************************************************)
(* Properties of cluster_embeddings (under ClusterSpec)                    *)
(***************************************************************************)
ClusterReturned == call.fn = "cluster_embeddings" /\ call.result # "pending"

\* all embeddings of the call are the same non-zero vector
CallIdentical ==
    \A i \in DOMAIN call.embeddings :
        call.embeddings[i] = call.embeddings[1] /\ call.embeddings[i] # ZeroVec

\* C18: for N identical non-zero embeddings cluster_embeddings returns one
\* cluster with all N doc_ids if N >= MIN_CLUSTER_SIZE, and no cluster if
\* N < MIN_CLUSTER_SIZE.
C18_IdenticalEmbeddings ==
    ClusterReturned /\ CallIdentical =>
        IF Len(call.embeddings) >= MIN_CLUSTER_SIZE
        THEN /\ Len(call.result) = 1
             /\ call.result[1].doc_ids = call.doc_ids
        ELSE call.result = <<>>

\* MIN_CLUSTER_SIZE identical embeddings have given one cluster of them all
C18_Witness ==
    /\ ClusterReturned
    /\ CallIdentical
    /\ Len(call.embeddings) = MIN_CLUSTER_SIZE
    /\ Len(call.result) = 1
    /\ Len(call.result[1].doc_ids) = MIN_CLUSTER_SIZE

(***************************************************************************)
(* The lifecycle update within the tick (under Spec)                       *)
(***************************************************************************)
\* C19: in every tick, whatever the window contains, the lifecycle update is
\* applied after the matching to every event that is open, monitoring or
\* cooling: after the tick each of them has the status the transition of
\* _update_event_states gives it at the tick's time.
C19_LifecycleEveryTick ==
    last_tick.at >= 0 =>
        \A e \in DOMAIN last_tick.matched :
            last_tick.matched[e].status \in ActiveStatuses =>
                /\ e \in DOMAIN events
                /\ events[e].status = LifecycleStatus(last_tick.matched[e], last_tick.at)

\* C20: an event that received no merge after its last_update_time t is
\* closed after the first tick that starts at or after t + LIFECYCLE_HOURS:
\* once a tick has started that late, the event is closed.  (A merge in the
\* tick would have set last_update_time to the tick's time.)
C20_UnmergedEventCloses ==
    last_tick.at >= 0 =>
        \A e \in DOMAIN events :
            events[e].last_update_time + Hours(EVENT_LIFECYCLE_HOURS) <= last_tick.at =>
                events[e].status = "closed"

(***************************************************************************)
(* The centroids the matcher reads within a tick (under Spec)              *)
(***************************************************************************)
\* the EventDoc rows after the first n clusters of the tick: the rows the
\* tick found, and for every earlier cluster its documents linked to the
\* event it was merged into or created
LinksAfter(n) ==
    last_tick.before_docs
        \cup UNION {{<<last_tick.attempted[i].event, d>> :
                        d \in Range(last_tick.attempted[i].doc_ids)} : i \in 1..n}

\* earlier merges of the tick into event e that linked a new document
EarlierLinkingMerges(k, e) ==
    {i \in 1..(k - 1) : /\ last_tick.attempted[i].kind = "merged"
                        /\ last_tick.attempted[i].event = e
                        /\ last_tick.attempted[i].inserted # <<>>}

\* C21: event centroids are recomputed from the current membership on every
\* match call: the centroid of a candidate event used to match a cluster is
\* the mean embedding over the event's links including the documents that
\* clusters merged earlier in the same tick have linked.
C21_CentroidReadFresh ==
    \A k \in DOMAIN last_tick.attempted :
        LET o == last_tick.attempted[k]
        IN  \A j \in DOMAIN o.active :
                o.centroids[j] = get_event_centroid(o.active[j], documents, LinksAfter(k - 1))

\* a cluster was matched against an event into which an earlier cluster of
\* the tick had been merged with a new document, which moved the centroid
C21_Witness ==
    \E k \in DOMAIN last_tick.attempted :
        LET o == last_tick.attempted[k]
        IN  \E j \in DOMAIN o.active :
                /\ EarlierLinkingMerges(k, o.active[j]) # {}
                /\ o.centroids[j] # get_event_centroid(o.active[j], documents,
                                                       last_tick.before_docs)

(***************************************************************************)
(* Shutdown with a tick in flight (under ShutSpec)                         *)
(***************************************************************************)
\* C22: when shutdown is requested while a tick is in flight, the tick
\* completes or is abandoned, and the committed Event/EventDoc tables are
\* at every moment the complete pre-tick state or the complete post-tick
\* state: no merge is partly committed.
C22_ShutdownAllOrNothing ==
    call.fn = "_run_short_term" =>
        \/ events = call.pre.events /\ event_docs = call.pre.event_docs
        \/ events = call.post.events /\ event_docs = call.post.event_docs

\* shutdown came while a tick had matched a brand's clusters in its session;
\* the tick was abandoned and the tables are as before it, not as after it
C22_Witness ==
    /\ scheduler.stopped
    /\ call.fn = "_run_short_term"
    /\ call.stage = "abandoned"
    /\ call.st.outcomes # <<>>
    /\ call.brand_list # <<>>
    /\ events = call.pre.events
    /\ event_docs = call.pre.event_docs
    /\ call.post.events # call.pre.events

(***************************************************************************)
(* A failing aggregation run (under CronSpec)                              *)
(***************************************************************************)
RowsOfDate(d) ==
    {r \in daily_metrics : r.date = d} \cup {r \in daily_aspect_metrics : r.date = d}

\* C23: when the aggregator fails at any point of the run for a target
\* date, the run aborts and is logged, nothing it wrote or deleted is
\* persisted, and the engine does not retry or backfill: the scheduler never
\* runs a failed date again, the date has rows only once a run explicitly
\* triggered for it has succeeded.
C23_FailedRunAborts ==
    /\ [](call.raised # NoException =>
             /\ daily_metrics = call.pre.daily_metrics
             /\ daily_aspect_metrics = call.pre.daily_aspect_metrics)
    /\ [](\A d \in call.failed \ call.succeeded : RowsOfDate(d) = {})
    /\ [][call'.by = "cron" => call'.target_date \notin call.failed]_vars

\* The run of the cron job for day 0 raised; the job has run for day 1
\* since, and day 0, which has documents, has no row.
C23_Witness ==
    /\ call.by = "cron"
    /\ call.target_date = 1
    /\ call.raised = NoException
    /\ 0 \in call.failed \ call.succeeded
    /\ DayDocs(documents, 0) # {}
    /\ RowsOfDate(0) = {}
    /\ RowsOfDate(1) # {}

(***************************************************************************)
(* The two jobs side by side (under JobsSpec)                              *)
(***************************************************************************)
BothDone ==
    call.fn = "start_scheduler" /\ call.short.stage = "done" /\ call.long.stage = "done"

\* what the tick commits when it runs alone on the tables of the round's start
ShortTermAlone ==
    run_short_term_engine(documents, call.pre.events, call.pre.event_docs, now,
                          call.short.skews, call.short.scan_order)

\* what the aggregation commits when it runs alone on them
LongTermAlone ==
    run_long_term_engine(documents, call.pre.daily_metrics,
                         call.pre.daily_aspect_metrics, (now - Hours(24)) \div Hours(24))

SeverityRank(sev) == CASE sev = "P2" -> 0 [] sev = "P1" -> 1 [] sev = "P0" -> 2

\* merge k of the tick applies again a merge the event has had: it is the
\* only one into its event, all its documents were linked to the event when
\* the tick began, and its negative fraction is the one the event carries
Reapplied(k) ==
    LET o == last_tick.outcomes[k]
    IN  /\ k \in Merges
        /\ MergesInto(o.event) = {k}
        /\ Range(o.doc_ids) \subseteq LinkedDocs(last_tick.before_docs, o.event)
        /\ o.neg_ratio = last_tick.before[o.event].neg_ratio

\* C25 as claimed: applying the same cluster merge to the same event again
\* leaves the EventDoc membership identical and cluster_size and severity
\* as they were.
C25_RetryIdempotent ==
    \A k \in DOMAIN last_tick.outcomes :
        Reapplied(k) =>
            LET e == last_tick.outcomes[k].event
            IN  /\ LinkedDocs(event_docs, e) = LinkedDocs(last_tick.before_docs, e)
                /\ last_tick.matched[e].cluster_size = last_tick.before[e].cluster_size
                /\ last_tick.matched[e].severity = last_tick.before[e].severity

\* C25: applying the same cluster merge to the same event again leaves the
\* EventDoc membership identical; cluster_size grows by the size of the
\* cluster at every application, so it has no fixed point; severity never
\* falls in rank.
C25_RetryAddsSize ==
    \A k \in DOMAIN last_tick.outcomes :
        Reapplied(k) =>
            LET o == last_tick.outcomes[k]
                e == o.event
            IN  /\ LinkedDocs(event_docs, e) = LinkedDocs(last_tick.before_docs, e)
                /\ o.inserted = <<>>
                /\ last_tick.matched[e].cluster_size =
                       last_tick.before[e].cluster_size + Len(o.doc_ids)
                /\ last_tick.matched[e].cluster_size > last_tick.before[e].cluster_size
                /\ SeverityRank(last_tick.matched[e].severity)
                       >= SeverityRank(last_tick.before[e].severity)

\* a merge applied again has raised the severity of the event from P2 to P1
\* without a new document
C25_Witness ==
    \E k \in DOMAIN last_tick.outcomes :
        /\ Reapplied(k)
        /\ last_tick.before[last_tick.outcomes[k].event].severity = "P2"
        /\ last_tick.matched[last_tick.outcomes[k].event].severity = "P1"
        /\ last_tick.matched[last_tick.outcomes[k].event].cluster_size
               > Cardinality(LinkedDocs(event_docs, last_tick.outcomes[k].event))

(***************************************************************************)
(* The merge candidates of a cluster (under Spec)                          *)
(***************************************************************************)
\* the events that had the brand, an active status and a last update within
\* the lifecycle window of `clock` when the tick began
ActiveBefore(brand, clock) ==
    {e \in DOMAIN last_tick.before :
        /\ last_tick.before[e].brand = brand
        /\ last_tick.before[e].status \in ActiveStatuses
        /\ last_tick.before[e].last_update_time >= clock - Hours(EVENT_LIFECYCLE_HOURS)}

\* the events created for the clusters before cluster k of the tick: they
\* are open and their last update is the tick's time
CreatedBefore(k, brand) ==
    {last_tick.attempted[j].event : j \in {i \in 1..(k - 1) :
        /\ last_tick.attempted[i].kind = "created"
        /\ last_tick.attempted[i].brand = brand}}

\* the clock get_active_events may have read in the tick
TickClocks == last_tick.at .. (last_tick.at + MaxSkew)

\* C26 as claimed: the merge candidates of a cluster of brand B are exactly
\* the events that have brand B, an active status and a last update within
\* the lifecycle window when the cluster is matched, the events created
\* earlier in the tick among them.
C26_CandidatesAllActive ==
    \A k \in DOMAIN last_tick.attempted :
        LET o == last_tick.attempted[k]
        IN  \E clock \in TickClocks :
                Range(o.active) = ActiveBefore(o.brand, clock) \cup CreatedBefore(k, o.brand)

\* C26: the merge candidates of a cluster of brand B are exactly the events
\* that had brand B, an active status and last_update_time >= clock -
\* LIFECYCLE_HOURS when the processing of the brand began, clock being the
\* time get_active_events read; an event created for an earlier cluster of
\* the tick is not among them.  An event of another brand, a closed event or
\* an event last updated before now - LIFECYCLE_HOURS is never merged into.
C26_CandidatesAtBrandStart ==
    /\ \A k \in DOMAIN last_tick.attempted :
          LET o == last_tick.attempted[k]
          IN  /\ \E clock \in TickClocks : Range(o.active) = ActiveBefore(o.brand, clock)
              /\ Range(o.active) \cap CreatedBefore(k, o.brand) = {}
              /\ \A i, j \in DOMAIN o.active : o.active[i] = o.active[j] => i = j
    /\ \A k \in DOMAIN last_tick.attempted :
          LET o == last_tick.attempted[k]
          IN  o.kind = "merged" =>
                 /\ o.event \in DOMAIN last_tick.before
                 /\ last_tick.before[o.event].brand = o.brand
                 /\ last_tick.before[o.event].status # "closed"
                 /\ last_tick.before[o.event].last_update_time
                        >= last_tick.at - Hours(EVENT_LIFECYCLE_HOURS)

\* A cluster had an event for candidate while an event of its brand created
\* for an earlier cluster of the tick was none, and neither was a closed
\* event of the brand.
C26_Witness ==
    \E k \in DOMAIN last_tick.attempted :
        LET o == last_tick.attempted[k]
        IN  /\ o.active # <<>>
            /\ CreatedBefore(k, o.brand) # {}
            /\ o.kind = "merged"

(***************************************************************************)
(* Candidates without a usable centroid (under MatchSpec)                  *)
(***************************************************************************)
\* candidate k has a centroid, and neither it nor the cluster centroid has
\* norm zero
CandUsable(k) ==
    /\ call.centroids[k] # NoCentroid
    /\ call.centroids[k] # ZeroVec
    /\ call.cluster_centroid # ZeroVec

\* the positions of the usable candidates, in scan order
UsablePositions == SelectSeq([k \in DOMAIN call.centroids |-> k], CandUsable)

\* the match among the usable candidates alone, as a position of the list
MatchAmongUsable ==
    LET m == find_matching_event(call.cluster_centroid,
                 [i \in DOMAIN UsablePositions |-> call.centroids[UsablePositions[i]]],
                 call.T)
    IN  IF m = 0 THEN 0 ELSE UsablePositions[m]

\* C27: a candidate whose centroid cannot be computed, or whose centroid or
\* the cluster centroid has norm zero, is never the match; the call returns
\* (a candidate or none) and its result is the one the remaining candidates
\* alone give.
C27_UnusableCandidateSkipped ==
    MatchReturned =>
        /\ call.result \in 0..Len(call.centroids)
        /\ call.result # 0 => CandUsable(call.result)
        /\ call.result = MatchAmongUsable

\* after a candidate without centroid and one with a zero centroid, the
\* third candidate has been matched
C27_Witness ==
    /\ MatchReturned
    /\ Len(call.centroids) = 3
    /\ call.centroids[1] = NoCentroid
    /\ call.centroids[2] = ZeroVec
    /\ call.result = 3


(***************************************************************************)
(* C28: the region of a created event                                      *)
(***************************************************************************)
\* the regions of the cluster's documents, in the order of cluster_docs
RegionsOf(o) == [k \in DOMAIN o.cluster_docs |-> documents[o.cluster_docs[k]].region_group]

Occurrences(rs, r) == Cardinality({i \in DOMAIN rs : rs[i] = r})

FirstAt(rs, r) == CHOOSE i \in DOMAIN rs : rs[i] = r /\ \A j \in 1..(i - 1) : rs[j] # r

\* C28: the region_group of an event created in the tick is a region of the
\* cluster's documents that no other region outnumbers, and among the regions
\* with that same count it is the one met first in the cluster's documents.
C28_CreatedRegionMostCommon ==
    \A k \in DOMAIN last_tick.outcomes :
        LET o == last_tick.outcomes[k]
            rs == RegionsOf(o)
            r == events[o.event].region_group
        IN  o.kind = "created" =>
               /\ r \in Range(rs)
               /\ \A q \in Range(rs) :
                     /\ Occurrences(rs, q) <= Occurrences(rs, r)
                     /\ Occurrences(rs, q) = Occurrences(rs, r)
                           => FirstAt(rs, r) <= FirstAt(rs, q)

\* an event was created from a cluster in which two regions share the
\* highest count, and it carries the one met first, which is neither the
\* one met last nor the first in alphabetical order
C28_Witness ==
    \E k \in DOMAIN last_tick.outcomes :
        LET o == last_tick.outcomes[k]
            rs == RegionsOf(o)
            r == events[o.event].region_group
        IN  /\ o.kind = "created"
            /\ rs = <<"NA", "EU", "EU", "NA", "APAC">>
            /\ r = "NA"
            /\ Occurrences(rs, "EU") = Occurrences(rs, "NA")


(***************************************************************************)
(* C29: the fields a merge and a lifecycle update leave alone              *)
(***************************************************************************)
\* the fields of an event that are written when it is created only
IdentityFields(ev) ==
    [brand |-> ev.brand, event_type |-> ev.event_type,
     start_time |-> ev.start_time, region_group |-> ev.region_group]

\* C29: every step keeps every event at its event_id with the brand,
\* event_type, start_time and region_group it had before the step, so these
\* fields stay as they were set when the event was created, whatever the
\* merges and lifecycle updates that follow.
C29_IdentityFieldsKept ==
    [][\A e \in DOMAIN events :
          /\ e \in DOMAIN events'
          /\ IdentityFields(events'[e]) = IdentityFields(events[e])]_vars

\* a tick merged into an event of an earlier tick a cluster in which another
\* region than the event's is the most common, and the event kept its region
\* and its start_time; the same tick's lifecycle pass left it monitoring
C29_Witness ==
    \E k \in DOMAIN last_tick.outcomes :
        LET o == last_tick.outcomes[k]
        IN  /\ o.kind = "merged"
            /\ o.event \in DOMAIN last_tick.before
            /\ o.dominant_region # last_tick.before[o.event].region_group
            /\ o.dominant_region # NoRegion
            /\ events[o.event].region_group = last_tick.before[o.event].region_group
            /\ events[o.event].start_time < last_tick.at
            /\ events[o.event].last_update_time = last_tick.at
            /\ events[o.event].status = "monitoring"


(***************************************************************************)
(* C30: the rows of daily_metrics (under LongSpec)                         *)
(***************************************************************************)
\* the brand's documents created on day D: from day_start up to the last
\* interval before day_end
DocsOfDay(brand, D) ==
    {i \in DOMAIN documents :
        /\ documents[i].brand = brand
        /\ documents[i].created_at \in (D * Hours(24))..((D + 1) * Hours(24) - 1)}

With(ids, sentiment) == {i \in ids : documents[i].sentiment = sentiment}

MetricsRows(table, brand, D) == {r \in table : r.brand = brand /\ r.date = D}

\* C30: after a run for date D, every brand with a document created in
\* [day_start, day_end) has a daily_metrics row (brand, D) whose volume_total
\* counts these documents and whose pos_count, neu_count and neg_count count
\* those of them with the sentiment, a document dated day_end not being one
\* of them; and the run writes no row for a brand without such a document.
C30_DailyMetricsCounts ==
    /\ [](call.target_date >= 0 /\ call.raised = NoException =>
            \A brand \in Brands :
                LET D == call.target_date
                    ids == DocsOfDay(brand, D)
                IN  /\ ids # {} =>
                        \E r \in MetricsRows(daily_metrics, brand, D) :
                            /\ r.volume_total = Cardinality(ids)
                            /\ r.pos_count = Cardinality(With(ids, "pos"))
                            /\ r.neu_count = Cardinality(With(ids, "neu"))
                            /\ r.neg_count = Cardinality(With(ids, "neg"))
                    /\ ids = {} => MetricsRows(daily_metrics, brand, D) = {})
    /\ [][\A brand \in Brands :
             DocsOfDay(brand, call'.target_date) = {} =>
                 MetricsRows(daily_metrics', brand, call'.target_date)
                     = MetricsRows(daily_metrics, brand, call'.target_date)]_vars

\* the run for day 0 found one document of one brand in the last interval of
\* the day and one document of the other brand dated day_end: the first
\* brand has a row counting one document, the other brand has no row
C30_Witness ==
    /\ call.fn = "run_long_term_engine"
    /\ call.target_date = 0
    /\ call.raised = NoException
    /\ Len(documents) = 2
    /\ documents[1].brand # documents[2].brand
    /\ documents[1].created_at = Hours(24) - 1
    /\ documents[1].sentiment = "neg"
    /\ documents[2].created_at = Hours(24)
    /\ \E r \in daily_metrics :
          /\ r.brand = documents[1].brand
          /\ r.date = 0
          /\ r.volume_total = 1
          /\ r.neg_count = 1
          /\ r.pos_count = 0
          /\ r.neu_count = 0
    /\ MetricsRows(daily_metrics, documents[2].brand, 0) = {}


(***************************************************************************)
(* C31: the rows of daily_aspect_metrics (under LongSpec)                  *)
(***************************************************************************)
Aspects == {documents[i].aspect : i \in DOMAIN documents} \cup {NoAspect}

AspectRows(table, brand, D, aspect) ==
    {r \in table : r.brand = brand /\ r.date = D /\ r.aspect = aspect}

\* C31: after a run for date D, every (brand, aspect) with a non-null aspect
\* and a document created in [day_start, day_end) has a daily_aspect_metrics
\* row (brand, D, aspect) whose volume counts these documents and whose
\* neg_count counts the negative ones among them; no row has a null aspect,
\* and a (brand, aspect) without such a document has no row for D.
C31_AspectMetricsCounts ==
    /\ \A r \in daily_aspect_metrics : r.aspect # NoAspect
    /\ call.target_date >= 0 /\ call.raised = NoException =>
          \A brand \in Brands : \A aspect \in Aspects \ {NoAspect} :
              LET D == call.target_date
                  ids == {i \in DocsOfDay(brand, D) : documents[i].aspect = aspect}
              IN  /\ ids # {} =>
                      \E r \in AspectRows(daily_aspect_metrics, brand, D, aspect) :
                          /\ r.volume = Cardinality(ids)
                          /\ r.neg_count = Cardinality(With(ids, "neg"))
                  /\ ids = {} => AspectRows(daily_aspect_metrics, brand, D, aspect) = {}

\* the run found two documents of one brand on the day, a negative one with
\* an aspect and one without aspect: the aspect's row counts one document,
\* while the brand's daily_metrics row counts both
C31_Witness ==
    /\ call.fn = "run_long_term_engine"
    /\ call.target_date = 1
    /\ call.raised = NoException
    /\ Len(documents) = 2
    /\ documents[1].brand = documents[2].brand
    /\ DocsOfDay(documents[1].brand, 1) = {1, 2}
    /\ documents[1].aspect # NoAspect
    /\ documents[1].sentiment = "neg"
    /\ documents[2].aspect = NoAspect
    /\ documents[2].sentiment = "neg"
    /\ \E r \in daily_aspect_metrics :
          /\ r.brand = documents[1].brand
          /\ r.aspect = documents[1].aspect
          /\ r.volume = 1
          /\ r.neg_count = 1
    /\ Cardinality(daily_aspect_metrics) = 1
    /\ \E r \in daily_metrics : r.volume_total = 2


(***************************************************************************)
(* C32: the radius of the clustering (under NeighbourSpec)                 *)
(***************************************************************************)
\* the squared Euclidean distance of the normalised a and b, as a ratio; a
\* zero row stays zero and is at distance 1 from a unit row
NormDistSq(a, b) ==
    IF a = ZeroVec /\ b = ZeroVec THEN <<0, 1>>
    ELSE IF a = ZeroVec \/ b = ZeroVec THEN <<1, 1>>
    ELSE <<(a[1] - b[1]) * (a[1] - b[1]) + (a[2] - b[2]) * (a[2] - b[2]), NormSq(a)>>

\* C32: under every configured threshold T, two normalised documents are
\* neighbours exactly when their squared distance is at most 2 * (1 - T),
\* that is when their distance is at most eps = sqrt(2 * (1 - T)).
C32_EpsFromThreshold ==
    call.fn = "neighbours" /\ call.returned =>
        LET d == NormDistSq(call.a, call.b)
        IN  call.result <=> d[1] * 100 <= 2 * (100 - call.T) * d[2]


(***************************************************************************)
(* C33: the assignment of the documents to clusters (under BorderSpec)     *)
(***************************************************************************)
\* the input positions of the documents of the k-th returned cluster
Members(k) == {i \in DOMAIN call.embeddings :
                  call.doc_ids[i] \in Range(call.result[k].doc_ids)}

Near(i, j) == WithinEps(call.embeddings[i], call.embeddings[j])

IsCore(i) == Cardinality({j \in DOMAIN call.embeddings : Near(i, j)}) >= MIN_CLUSTER_SIZE

CorePoints == {i \in DOMAIN call.embeddings : IsCore(i)}

\* a border point: not a core point, within eps of one
IsBorder(j) == ~IsCore(j) /\ \E c \in CorePoints : Near(c, j)

\* the position at which the scan in ascending order discovers the cluster
Discovered(k) == Min(Members(k) \cap CorePoints)

\* C33: every document that is a core point or within eps of one belongs to
\* exactly one returned cluster and a noise document to none; core points
\* within eps of each other share their cluster; a border point belongs to
\* the cluster discovered first, in ascending order of the input, among
\* those with a core point within eps of it.  This fixes the clusters of an
\* input list.
C33_BorderToFirstCluster ==
    ClusterReturned =>
        \E core \in {CorePoints} :
        \E members \in {[k \in DOMAIN call.result |-> Members(k)]} :
        \E border \in {{j \in DOMAIN call.embeddings \ core :
                           \E c \in core : Near(c, j)}} :
        \E next \in {[j \in border |->
                         {k \in DOMAIN call.result :
                             \E c \in members[k] \cap core : Near(c, j)}]} :
            /\ \A k \in DOMAIN call.result :
                  /\ members[k] \cap core # {}
                  /\ Len(call.result[k].doc_ids) = Cardinality(members[k])
            /\ \A i \in DOMAIN call.embeddings :
                  IF i \in core \cup border
                  THEN Cardinality({k \in DOMAIN call.result : i \in members[k]}) = 1
                  ELSE \A k \in DOMAIN call.result : i \notin members[k]
            /\ \A i, j \in core :
                  Near(i, j) => \A k \in DOMAIN call.result :
                                   i \in members[k] <=> j \in members[k]
            /\ \A j \in border : \A k \in DOMAIN call.result :
                  j \in members[k] =>
                      /\ k \in next[j]
                      /\ \A m \in next[j] :
                            Min(members[k] \cap core) <= Min(members[m] \cap core)

\* two clusters were returned; a border point within eps of a core point of
\* each comes before both core points in the input and belongs to the
\* cluster discovered first, which is the second of the returned list
C33_Witness ==
    /\ ClusterReturned
    /\ Len(call.result) = 2
    /\ \E j \in DOMAIN call.embeddings :
          /\ IsBorder(j)
          /\ \E c \in Members(1) \cap CorePoints : Near(c, j)
          /\ \E c \in Members(2) \cap CorePoints : Near(c, j)
          /\ j < Discovered(2)
          /\ Discovered(2) < Discovered(1)
          /\ j \in Members(2)
          /\ j \notin Members(1)


(***************************************************************************)
(* C34: the EventDoc rows (under Spec)                                     *)
(***************************************************************************)
\* C34: every EventDoc row references an event and a document that exist;
\* no step removes a row, and a row is added only by a tick, for an event
\* and a document of a cluster that the tick merged or created an event
\* from: the documents linked to an event only grow.
C34_LinksReferenceAndGrow ==
    /\ [](\A l \in event_docs : l[1] \in DOMAIN events /\ l[2] \in DOMAIN documents)
    /\ [][/\ event_docs \subseteq event_docs'
          /\ \A l \in event_docs' \ event_docs :
                /\ documents' = documents
                /\ now' = now + 1
                /\ \E k \in DOMAIN last_tick'.outcomes :
                      LET o == last_tick'.outcomes[k]
                      IN  /\ o.kind \in {"merged", "created"}
                          /\ o.event = l[1]
                          /\ l[2] \in Range(o.inserted)]_vars

\* a tick merged a cluster of new documents into an event of an earlier
\* tick whose documents have left the window: the event is linked to the
\* earlier documents and to the new ones
C34_Witness ==
    \E k \in DOMAIN last_tick.outcomes :
        LET o == last_tick.outcomes[k]
        IN  /\ o.kind = "merged"
            /\ o.inserted # <<>>
            /\ \E l \in last_tick.before_docs :
                  /\ l[1] = o.event
                  /\ l[2] \notin Range(o.doc_ids)
                  /\ l \in event_docs
            /\ \A i \in Range(o.inserted) : <<o.event, i>> \in event_docs


(***************************************************************************)
(* C35: a tick that ends with an exception (under Spec)                    *)
(***************************************************************************)
\* C35: a tick that ends with an exception leaves events and event_docs as
\* it found them, whatever it had done before the exception, and the tick
\* that runs after it starts from that same state.
C35_FailedTickPersistsNothing ==
    /\ [][now' = now + 1 /\ last_tick'.raised # NoException =>
              /\ events' = events
              /\ event_docs' = event_docs]_vars
    /\ [][now' = now + 1 /\ last_tick.raised # NoException =>
              /\ last_tick'.before = last_tick.before
              /\ last_tick'.before_docs = last_tick.before_docs]_vars

\* the tick created an event for one brand and then the processing of the
\* next brand raised: the event and its EventDoc rows are not in the tables
C35_Witness ==
    /\ last_tick.raised # NoException
    /\ \E k \in DOMAIN last_tick.attempted :
          /\ last_tick.attempted[k].kind = "created"
          /\ last_tick.attempted[k].event \notin DOMAIN events
          /\ \A i \in Range(last_tick.attempted[k].doc_ids) :
                <<last_tick.attempted[k].event, i>> \notin event_docs
    /\ events = last_tick.before
    /\ event_docs = last_tick.before_docs


(***************************************************************************)
(* C36: severity follows cluster_size and neg_ratio (under Spec)           *)
(***************************************************************************)
\* the events a step merged a cluster into or created
Touched(outcomes) == {outcomes[k].event : k \in DOMAIN outcomes}

\* C36: the severity of every event is compute_severity of its cluster_size
\* and its neg_ratio, and a step changes the cluster_size, neg_ratio or
\* severity of an event only by merging a cluster into it in a tick.
C36_SeverityConsistent ==
    /\ [](\A e \in DOMAIN events :
             events[e].severity
                 = compute_severity(events[e].cluster_size, events[e].neg_ratio))
    /\ [][\A e \in DOMAIN events :
             \/ /\ events'[e].cluster_size = events[e].cluster_size
                /\ events'[e].neg_ratio = events[e].neg_ratio
                /\ events'[e].severity = events[e].severity
             \/ /\ now' = now + 1
                /\ \E k \in DOMAIN last_tick'.outcomes :
                      /\ last_tick'.outcomes[k].kind = "merged"
                      /\ last_tick'.outcomes[k].event = e]_vars

\* a merge has taken an event past P1_CLUSTER_SIZE and its severity from P2
\* to P1, while the same tick's lifecycle pass went over it
C36_Witness ==
    \E k \in DOMAIN last_tick.outcomes :
        LET o == last_tick.outcomes[k]
        IN  /\ o.kind = "merged"
            /\ last_tick.ran
            /\ last_tick.before[o.event].cluster_size <= P1_CLUSTER_SIZE
            /\ last_tick.before[o.event].severity = "P2"
            /\ events[o.event].cluster_size > P1_CLUSTER_SIZE
            /\ events[o.event].severity = "P1"


(***************************************************************************)
(* C37: events are partitioned per brand (under Spec)                      *)
(***************************************************************************)
\* a and b are non-zero and point the same way: cosine similarity 1.0
SameDirection(a, b) ==
    /\ Dot(a, b) > 0
    /\ Dot(a, b) * Dot(a, b) = NormSq(a) * NormSq(b)

\* C37: every document linked to an event has the event's brand; every
\* cluster a tick handled holds documents of one brand only, and the event
\* it was merged into or that was created from it has that brand, so that
\* the cluster_size of an event of another brand is as the tick found it
\* unless a cluster of that brand was merged into it.
C37_BrandPartition ==
    /\ \A l \in event_docs : documents[l[2]].brand = events[l[1]].brand
    /\ \A k \in DOMAIN last_tick.outcomes :
          LET o == last_tick.outcomes[k]
          IN  /\ \A i \in Range(o.doc_ids) : documents[i].brand = o.brand
              /\ events[o.event].brand = o.brand
              /\ \A e \in DOMAIN last_tick.before :
                    last_tick.before[e].brand # o.brand
                    /\ (\A j \in DOMAIN last_tick.outcomes :
                           last_tick.outcomes[j].brand = o.brand
                           \/ last_tick.outcomes[j].event # e)
                    => /\ events[e].cluster_size = last_tick.before[e].cluster_size
                       /\ LinkedDocs(event_docs, e) = LinkedDocs(last_tick.before_docs, e)

\* the tick found an active event of one brand and a cluster of another
\* brand's documents with the same direction as the event's documents: the
\* cluster created an event of its own brand and the event was left alone
C37_Witness ==
    \E k \in DOMAIN last_tick.outcomes :
        LET o == last_tick.outcomes[k]
        IN  /\ o.kind = "created"
            /\ \E e \in DOMAIN last_tick.before :
                  /\ last_tick.before[e].brand # o.brand
                  /\ last_tick.before[e].status \in ActiveStatuses
                  /\ last_tick.before[e].last_update_time
                         >= last_tick.at - Hours(EVENT_LIFECYCLE_HOURS)
                  /\ \E l \in last_tick.before_docs :
                        /\ l[1] = e
                        /\ documents[l[2]].embedding # NoEmbedding
                        /\ SameDirection(documents[l[2]].embedding, o.centroid)
                  /\ events[e].cluster_size = last_tick.before[e].cluster_size


(***************************************************************************)
(* C38: the status transitions (under Spec)                                *)
(***************************************************************************)
StatusTransitions ==
    {<<"open", "monitoring">>, <<"open", "cooling">>, <<"open", "closed">>,
     <<"monitoring", "monitoring">>, <<"monitoring", "cooling">>,
     <<"monitoring", "closed">>,
     <<"cooling", "monitoring">>, <<"cooling", "closed">>}

\* C38: a step that changes the status of an event, or merges a cluster
\* into it, takes the status along one of: open to monitoring, cooling or
\* closed; monitoring to monitoring, cooling or closed; cooling to
\* monitoring or closed; none from closed.  An event is open when it is
\* created and as long as nothing was merged into it and no lifecycle
\* transition applied to it; no step makes an event open that was not.
C38_StatusTransitions ==
    /\ [](\A e \in DOMAIN events :
             events[e].status = "open" =>
                 /\ events[e].last_update_time = events[e].start_time
                 /\ \A k \in DOMAIN last_tick.outcomes :
                       last_tick.outcomes[k].kind = "merged"
                           => last_tick.outcomes[k].event # e)
    /\ [][\A e \in DOMAIN events' :
             IF e \in DOMAIN events
             THEN /\ \/ <<events[e].status, events'[e].status>> \in StatusTransitions
                     \/ events'[e] = events[e]
                  /\ events'[e].status = "open" => events'[e] = events[e]
             ELSE events'[e].status = "open"]_vars

\* an open event into which nothing was merged has become cooling by the
\* lifecycle update, without having been monitoring
C38_Witness ==
    /\ last_tick.ran
    /\ \E e \in DOMAIN last_tick.before :
          /\ last_tick.before[e].status = "open"
          /\ last_tick.matched[e].status = "open"
          /\ events[e].status = "cooling"
          /\ events[e].cluster_size = last_tick.before[e].cluster_size


C40_TotalIsSumOfCounts ==
    \A r \in daily_metrics \cup call.session :
        r.volume_total = r.pos_count + r.neu_count + r.neg_count

====
